---- MODULE Spec2Model ----
(***************************************************************************)
(* One trading session of the options strategy engine                      *)
(* (strategy_engine/engine.py, Backtester.run_day) as a state machine:     *)
(* entry, the snapshot loop (per-leg update and exit evaluation, re-entry  *)
(* spawn or queue, pending re-entry resolution, Complete square-off), the  *)
(* final force-close and the row emission.                                 *)
(*                                                                         *)
(* Prices, strikes and rule values are integers; a percent comparison      *)
(* a/ref >= v/100 is computed as a*100 >= v*ref, which agrees with the     *)
(* floating-point comparison on the small integers used here.              *)
(***************************************************************************)
EXTENDS Integers, Sequences, FiniteSets, TLC

\* Python's None for a timestamp, a price or a strike.
None == -1

\* Number of snapshots of the session window [e_ts, x_ts], the entry
\* snapshot (index 0) included; the exit snapshot is the last one.
NumSnapshots == 3

LastTs == NumSnapshots - 1

\* ------------------------------------------------------------------------
\* Input domains
\* ------------------------------------------------------------------------
OptionTypes == {"CE"}
Strikes == {100, 150}
Marks == {75, 100}
Unders == {120}

\* A chain snapshot: the Close of each (OptionType, Strike) row, None when
\* the snapshot has no such row.
Chains == [OptionTypes \X Strikes -> Marks \cup {None}]

\* ------------------------------------------------------------------------
\* config.py
\* ------------------------------------------------------------------------
RiskRule(enabled, basis, value) ==
    [enabled |-> enabled, basis |-> basis, value |-> value]

TrailRule(enabled, basis, value) ==
    [enabled |-> enabled, basis |-> basis, value |-> value]

RiskConfig(target, sl, trail) ==
    [target |-> target, sl |-> sl, trail |-> trail]

ReEntryRule(enabled, mode, max_count, lazy_leg) ==
    [enabled |-> enabled, mode |-> mode, max_count |-> max_count,
     lazy_leg |-> lazy_leg]

\* ReEntryRule() : the dataclass defaults.
DefaultReEntryRule == ReEntryRule(FALSE, "RE_ASAP", 0, "None")

LegSpec(position, option_type, qty_lots, strike_type, risk, re_sl, re_tgt) ==
    [position |-> position, option_type |-> option_type,
     qty_lots |-> qty_lots, strike_type |-> strike_type, risk |-> risk,
     reentry_on_sl |-> re_sl, reentry_on_target |-> re_tgt]

\* ------------------------------------------------------------------------
\* engine.py helpers
\* ------------------------------------------------------------------------
_is_short(position) == position = "Sell"

\* A rule argument that is None: "if not rule" is true for it alone.
NoRule == [missing |-> TRUE]

\* str(basis).lower(), on the basis strings the rules here carry.
Lower(b) == IF b = "PREMIUM_PTS" THEN "premium_pts" ELSE b

ReversePositionSame(pos) == pos

_reverse_position(pos) == IF _is_short(pos) THEN "Buy" ELSE "Sell"

\* a/ref >= v/100 for integers, ref # 0.
PctGE(a, ref, v) ==
    IF ref > 0 THEN a * 100 >= v * ref ELSE a * 100 <= v * ref

HitTargetStrict(rule, position, entry_px, entry_S, ltp, S) ==
    LET short == _is_short(position) IN
    /\ rule # NoRule
    /\ rule.enabled
    /\ CASE Lower(rule.basis) = "premium_pts" ->
              (IF short THEN entry_px - ltp ELSE ltp - entry_px) > rule.value
         [] Lower(rule.basis) = "premium_pct" ->
              LET ref == IF entry_px # 0 THEN entry_px ELSE 1
                  mv  == IF short THEN entry_px - ltp ELSE ltp - entry_px
              IN  ~PctGE(-mv, ref, -rule.value)
         [] Lower(rule.basis) = "underlying_pts" ->
              IF short THEN S - entry_S < -rule.value
                       ELSE S - entry_S > rule.value
         [] Lower(rule.basis) = "underlying_pct" ->
              LET refS == IF entry_S # 0 THEN entry_S ELSE 1 IN
              IF short THEN ~PctGE(S - entry_S, refS, -rule.value)
                       ELSE ~PctGE(entry_S - S, refS, -rule.value)
         [] OTHER -> FALSE

_hit_target(rule, position, entry_px, entry_S, ltp, S) ==
    LET short == _is_short(position) IN
    /\ rule # NoRule
    /\ rule.enabled
    /\ CASE Lower(rule.basis) = "premium_pts" ->
              (IF short THEN entry_px - ltp ELSE ltp - entry_px) >= rule.value
         [] Lower(rule.basis) = "premium_pct" ->
              LET ref == IF entry_px # 0 THEN entry_px ELSE 1
                  mv  == IF short THEN entry_px - ltp ELSE ltp - entry_px
              IN  PctGE(mv, ref, rule.value)
         [] Lower(rule.basis) = "underlying_pts" ->
              IF short THEN S - entry_S <= -rule.value
                       ELSE S - entry_S >= rule.value
         [] Lower(rule.basis) = "underlying_pct" ->
              LET refS == IF entry_S # 0 THEN entry_S ELSE 1 IN
              IF short THEN PctGE(entry_S - S, refS, rule.value)
                       ELSE PctGE(S - entry_S, refS, rule.value)
         [] OTHER -> FALSE

_hit_stop(rule, position, entry_px, entry_S, ltp, S) ==
    LET short == _is_short(position) IN
    /\ rule # NoRule
    /\ rule.enabled
    /\ CASE Lower(rule.basis) = "premium_pts" ->
              (IF short THEN ltp - entry_px ELSE entry_px - ltp) >= rule.value
         [] Lower(rule.basis) = "premium_pct" ->
              LET ref  == IF entry_px # 0 THEN entry_px ELSE 1
                  loss == IF short THEN ltp - entry_px ELSE entry_px - ltp
              IN  PctGE(loss, ref, rule.value)
         [] Lower(rule.basis) = "underlying_pts" ->
              IF short THEN S - entry_S >= rule.value
                       ELSE S - entry_S <= -rule.value
         [] Lower(rule.basis) = "underlying_pct" ->
              LET refS == IF entry_S # 0 THEN entry_S ELSE 1 IN
              IF short THEN PctGE(S - entry_S, refS, rule.value)
                       ELSE PctGE(entry_S - S, refS, rule.value)
         [] OTHER -> FALSE

\* stop = best*(1 +/- val/100); ltp >= stop (short) or ltp <= stop (long).
_trail_stop(trail_rule, position, best_fav_px, ltp) ==
    LET short == _is_short(position) IN
    /\ trail_rule # NoRule
    /\ trail_rule.enabled
    /\ best_fav_px # None
    /\ CASE Lower(trail_rule.basis) = "points" ->
              IF short THEN ltp >= best_fav_px + trail_rule.value
                       ELSE ltp <= best_fav_px - trail_rule.value
         [] Lower(trail_rule.basis) = "percent" ->
              IF short
              THEN ltp * 100 >= best_fav_px * (100 + trail_rule.value)
              ELSE ltp * 100 <= best_fav_px * (100 - trail_rule.value)
         [] OTHER -> FALSE

\* ------------------------------------------------------------------------
\* risk.py : the same predicates as a module of their own
\* ------------------------------------------------------------------------
\* rule.basis is compared as it is written, without lower().
hit_target(rule, position, entry_px, entry_S, ltp, S) ==
    LET short == _is_short(position) IN
    /\ rule # NoRule
    /\ rule.enabled
    /\ CASE rule.basis = "premium_pts" ->
              (IF short THEN entry_px - ltp ELSE ltp - entry_px) >= rule.value
         [] rule.basis = "premium_pct" ->
              LET ref == IF entry_px # 0 THEN entry_px ELSE 1
                  mv  == IF short THEN entry_px - ltp ELSE ltp - entry_px
              IN  PctGE(mv, ref, rule.value)
         [] rule.basis = "underlying_pts" ->
              IF short THEN S - entry_S <= -rule.value
                       ELSE S - entry_S >= rule.value
         [] rule.basis = "underlying_pct" ->
              LET refS == IF entry_S # 0 THEN entry_S ELSE 1 IN
              IF short THEN PctGE(entry_S - S, refS, rule.value)
                       ELSE PctGE(S - entry_S, refS, rule.value)
         [] OTHER -> FALSE

HitStopEnabledIgnored(rule, position, entry_px, entry_S, ltp, S) ==
    LET short == _is_short(position) IN
    /\ rule # NoRule
    /\ CASE rule.basis = "premium_pts" ->
              (IF short THEN ltp - entry_px ELSE entry_px - ltp) >= rule.value
         [] rule.basis = "premium_pct" ->
              LET ref  == IF entry_px # 0 THEN entry_px ELSE 1
                  loss == IF short THEN ltp - entry_px ELSE entry_px - ltp
              IN  PctGE(loss, ref, rule.value)
         [] rule.basis = "underlying_pts" ->
              IF short THEN S - entry_S >= rule.value
                       ELSE S - entry_S <= -rule.value
         [] rule.basis = "underlying_pct" ->
              LET refS == IF entry_S # 0 THEN entry_S ELSE 1 IN
              IF short THEN PctGE(S - entry_S, refS, rule.value)
                       ELSE PctGE(entry_S - S, refS, rule.value)
         [] OTHER -> FALSE

hit_stop(rule, position, entry_px, entry_S, ltp, S) ==
    LET short == _is_short(position) IN
    /\ rule # NoRule
    /\ rule.enabled
    /\ CASE rule.basis = "premium_pts" ->
              (IF short THEN ltp - entry_px ELSE entry_px - ltp) >= rule.value
         [] rule.basis = "premium_pct" ->
              LET ref  == IF entry_px # 0 THEN entry_px ELSE 1
                  loss == IF short THEN ltp - entry_px ELSE entry_px - ltp
              IN  PctGE(loss, ref, rule.value)
         [] rule.basis = "underlying_pts" ->
              IF short THEN S - entry_S >= rule.value
                       ELSE S - entry_S <= -rule.value
         [] rule.basis = "underlying_pct" ->
              LET refS == IF entry_S # 0 THEN entry_S ELSE 1 IN
              IF short THEN PctGE(S - entry_S, refS, rule.value)
                       ELSE PctGE(entry_S - S, refS, rule.value)
         [] OTHER -> FALSE

\* A Python bool as the string its repr is.
Py(b) == IF b THEN "True" ELSE "False"

\* trail_stop has no test for an unset best_fav_px: the arithmetic on None
\* raises TypeError when the rule is enabled with a basis it knows.
trail_stop(trail_rule, position, best_fav_px, ltp) ==
    LET short == _is_short(position) IN
    IF trail_rule = NoRule THEN "False"
    ELSE IF ~trail_rule.enabled THEN "False"
    ELSE IF trail_rule.basis \notin {"points", "percent"} THEN "False"
    ELSE IF best_fav_px = None THEN "TypeError"
    ELSE IF trail_rule.basis = "points"
    THEN Py(IF short THEN ltp >= best_fav_px + trail_rule.value
                     ELSE ltp <= best_fav_px - trail_rule.value)
    ELSE Py(IF short
            THEN ltp * 100 >= best_fav_px * (100 + trail_rule.value)
            ELSE ltp * 100 <= best_fav_px * (100 - trail_rule.value))

\* ------------------------------------------------------------------------
\* strikes.py : select_strike
\* ------------------------------------------------------------------------
MinOf(S) == CHOOSE x \in S : \A y \in S : x <= y

MaxOf(S) == CHOOSE x \in S : \A y \in S : x >= y

Abs(x) == IF x < 0 THEN -x ELSE x

\* Python round(a / b) for integers a >= 0, b > 0: half to even.
RoundDiv(a, b) ==
    LET q == a \div b
        r == a % b
    IN  IF 2 * r < b THEN q
        ELSE IF 2 * r > b THEN q + 1
        ELSE IF q % 2 = 0 THEN q ELSE q + 1

\* The strikes of the rows of one option type in a chain snapshot.
Quoted(ch, otype) ==
    {p[2] : p \in {q \in DOMAIN ch : q[1] = otype /\ ch[q] # None}}

\* Mode of the consecutive differences of the sorted unique strikes (the
\* smallest of several modes), 50 when there are fewer than two strikes.
_detect_step(Ks) ==
    LET HasNext(k) == \E k2 \in Ks : k2 > k
        NextOf(k)  == MinOf({k2 \in Ks : k2 > k})
        Diffs      == {NextOf(k) - k : k \in {k1 \in Ks : HasNext(k1)}}
        Cnt(d)     == Cardinality({k \in Ks : HasNext(k) /\ NextOf(k) - k = d})
    IN  IF Cardinality(Ks) >= 2
        THEN CHOOSE d \in Diffs :
                 \A e \in Diffs : Cnt(d) > Cnt(e) \/ (Cnt(d) = Cnt(e) /\ d <= e)
        ELSE 50

NearestStrikeTarget(Ks, target) == target

\* df.iloc[(df.Strike - target).abs().argsort()].iloc[0]: the row nearest to
\* target, the first such row (rows in ascending strike order) on a tie.
nearest_strike(Ks, target) ==
    MinOf({k \in Ks : \A k2 \in Ks : Abs(k - target) <= Abs(k2 - target)})

\* "ATM" | "OTM<n>" | "ITM<n>" as a direction and a number of steps.
StrikeTypeDir(stype) ==
    CASE stype = "ATM"  -> 0
      [] stype = "OTM1" -> 1
      [] stype = "ITM1" -> -1
      [] stype = "OTM2" -> 2
      [] stype = "ITM2" -> -2
      [] OTHER -> 0

\* StrikeCriteria(mode, params) of config.py, and the criteria leg_from_dict
\* builds for a leg given by its strike type.
StrikeCriteria(mode, params) == [mode |-> mode, params |-> params]

StrikeType(stype) == StrikeCriteria("STRIKE_TYPE", [strike_type |-> stype])

\* raise NotImplementedError(f"Unsupported strike mode: {mode}")
Unsupported == -2

\* The strike of the first row of the rows Ks of df ordered by Close,
\* ascending or descending (rows in ascending strike order, ties keep it).
FirstByClose(ch, otype, Ks, ascending) ==
    LET Close(k) == ch[<<otype, k>>]
        best == IF ascending THEN MinOf({Close(k) : k \in Ks})
                             ELSE MaxOf({Close(k) : k \in Ks})
    IN  MinOf({k \in Ks : Close(k) = best})

\* The strike of the row of Ks whose Close is nearest to tgt2 / 2.
ClosestByClose(ch, otype, Ks, tgt2) ==
    LET Diff(k) == Abs(2 * ch[<<otype, k>>] - tgt2)
    IN  MinOf({k \in Ks : \A k2 \in Ks : Diff(k) <= Diff(k2)})

PremiumLeLowest(ch, otype, lim) ==
    LET Ks   == Quoted(ch, otype)
        cand == {k \in Ks : ch[<<otype, k>>] <= lim}
    IN  FirstByClose(ch, otype, IF cand = {} THEN Ks ELSE cand, TRUE)

\* PREMIUM_LE: the maximum premium <= lim, the smallest premium when none is.
PremiumLe(ch, otype, lim) ==
    LET Ks   == Quoted(ch, otype)
        cand == {k \in Ks : ch[<<otype, k>>] <= lim}
    IN  IF cand = {} THEN FirstByClose(ch, otype, Ks, TRUE)
        ELSE FirstByClose(ch, otype, cand, FALSE)

\* PREMIUM_GE: the minimum premium >= lim, the largest premium when none is.
PremiumGe(ch, otype, lim) ==
    LET Ks   == Quoted(ch, otype)
        cand == {k \in Ks : ch[<<otype, k>>] >= lim}
    IN  IF cand = {} THEN FirstByClose(ch, otype, Ks, FALSE)
        ELSE FirstByClose(ch, otype, cand, TRUE)

\* PREMIUM_RANGE: the row in [lower, upper] nearest to the middle, the row
\* nearest to the middle of all rows when none is in the range.
PremiumRange(ch, otype, lower, upper) ==
    LET Ks   == Quoted(ch, otype)
        lo   == IF lower > upper THEN upper ELSE lower
        hi   == IF lower > upper THEN lower ELSE upper
        cand == {k \in Ks : ch[<<otype, k>>] >= lo /\ ch[<<otype, k>>] <= hi}
    IN  ClosestByClose(ch, otype, IF cand = {} THEN Ks ELSE cand, lo + hi)

StrikeTypeBaseOnly(ch, otype, atm_price, stype) ==
    LET Ks   == Quoted(ch, otype)
        step == _detect_step(Ks)
    IN  nearest_strike(Ks, RoundDiv(atm_price, step) * step)

\* STRIKE_TYPE: base moved by n steps away from (OTM) or into (ITM) the
\* money, snapped to the nearest strike of df.
StrikeTypeTarget(ch, otype, atm_price, stype) ==
    LET Ks   == Quoted(ch, otype)
        step == _detect_step(Ks)
        base == RoundDiv(atm_price, step) * step
        side == IF otype = "CE" THEN 1 ELSE -1
        target == base + StrikeTypeDir(stype) * side * step
    IN  nearest_strike(Ks, target)

\* ce_pe_atm_prices(): the Close of the CE row and of the PE row nearest to
\* base; ok is FALSE for the ValueError raised when either side has no row.
ce_pe_atm_prices(ch, base) ==
    IF Quoted(ch, "CE") = {} \/ Quoted(ch, "PE") = {}
    THEN [ok |-> FALSE, ce_px |-> 0, pe_px |-> 0]
    ELSE [ok |-> TRUE,
          ce_px |-> ch[<<"CE", nearest_strike(Quoted(ch, "CE"), base)>>],
          pe_px |-> ch[<<"PE", nearest_strike(Quoted(ch, "PE"), base)>>]]

\* The modes below take df's strikes Ks and the step and base that
\* select_strike computes once for all modes.
\* STRADDLE_WIDTH: base moved by mul ATM straddles in the direction of sign,
\* rounded to a multiple of step and snapped to the nearest strike of df.
StraddleWidth(ch, Ks, step, base, sign, mul) ==
    LET px == ce_pe_atm_prices(ch, base)
        direction == IF sign = "+" \/ sign = "PLUS" THEN 1 ELSE -1
    IN  IF ~px.ok THEN None
        ELSE nearest_strike(Ks,
                 RoundDiv(base + direction * (mul * (px.ce_px + px.pe_px)),
                          step) * step)

\* PCT_OF_ATM: base moved by pct percent of itself (sign given in params).
PctOfAtm(Ks, step, base, sign, pct) ==
    nearest_strike(Ks,
        RoundDiv(base * (100 + (IF sign = "+" THEN 1 ELSE -1) * Abs(pct)),
                 100 * step) * step)

\* SYNTHETIC_FUTURE: STRIKE_TYPE around base - pe_px + ce_px.
SyntheticFuture(ch, otype, Ks, step, base, stype) ==
    LET px   == ce_pe_atm_prices(ch, base)
        side == IF otype = "CE" THEN 1 ELSE -1
    IN  IF ~px.ok THEN None
        ELSE nearest_strike(Ks,
                 RoundDiv(base - px.pe_px + px.ce_px, step) * step
                     + StrikeTypeDir(stype) * side * step)

\* ATM_PREMIUM_PCT: the row whose Close is nearest to pct percent of the ATM
\* straddle.
AtmPremiumPct(ch, otype, Ks, base, pct) ==
    LET px == ce_pe_atm_prices(ch, base)
    IN  IF ~px.ok THEN None
        ELSE ClosestByClose(ch, otype, Ks,
                            (2 * pct * (px.ce_px + px.pe_px)) \div 100)

\* The Delta column of a chain that carries one, in percent (ensure_delta
\* then returns a copy of the chain).
Delta(otype, k) ==
    IF otype = "CE" THEN 50 - (k - 25000) \div 5
    ELSE -50 - (k - 25000) \div 5

\* CLOSEST_DELTA: the row whose |Delta| is nearest to target (percent).
ClosestDelta(ch, otype, target) ==
    LET Ks      == Quoted(ch, otype)
        Diff(k) == Abs(Abs(Delta(otype, k)) - target)
    IN  MinOf({k \in Ks : \A k2 \in Ks : Diff(k) <= Diff(k2)})

\* DELTA_RANGE: of the rows with |Delta| in [lo, hi] the one with the
\* largest |Delta| for SELL and the smallest for BUY; None stands for the
\* ValueError raised when no row is in the range.
DeltaRange(ch, otype, lo, hi, position) ==
    LET Ks   == Quoted(ch, otype)
        d(k) == Abs(Delta(otype, k))
        cand == {k \in Ks : d(k) >= lo /\ d(k) <= hi}
        best == IF position = "SELL" THEN MaxOf({d(k) : k \in cand})
                                     ELSE MinOf({d(k) : k \in cand})
    IN  IF cand = {} THEN None
        ELSE MinOf({k \in cand : d(k) = best})

SelectStrikeNoEmptyTest(ch, otype, atm_price, criteria) ==
    IF Quoted(ch, otype) = {} THEN RoundDiv(atm_price, 50) * 50
    ELSE StrikeTypeTarget(ch, otype, atm_price, "ATM")

\* select_strike(chain, option_type, atm_price, criteria); None stands for
\* the ValueError raised when df is empty.
select_strike(ch, otype, atm_price, criteria) ==
    LET mode   == criteria.mode
        params == criteria.params
        Ks     == Quoted(ch, otype)
        step   == _detect_step(Ks)
        base   == RoundDiv(atm_price, step) * step
    IN  IF Quoted(ch, otype) = {} THEN None
        ELSE CASE mode = "STRIKE_TYPE" ->
                    StrikeTypeTarget(ch, otype, atm_price, params.strike_type)
               [] mode = "PREMIUM_RANGE" ->
                    PremiumRange(ch, otype, params.lower, params.upper)
               [] mode = "CLOSEST_PREMIUM" ->
                    ClosestByClose(ch, otype, Quoted(ch, otype),
                                   2 * params.premium)
               [] mode = "PREMIUM_LE" -> PremiumLe(ch, otype, params.value)
               [] mode = "PREMIUM_GE" -> PremiumGe(ch, otype, params.value)
               [] mode = "STRADDLE_WIDTH" ->
                    StraddleWidth(ch, Ks, step, base, params.sign,
                                  params.multiplier)
               [] mode = "PCT_OF_ATM" ->
                    PctOfAtm(Ks, step, base, params.sign, params.pct)
               [] mode = "SYNTHETIC_FUTURE" ->
                    SyntheticFuture(ch, otype, Ks, step, base,
                                    params.strike_type)
               [] mode = "ATM_PREMIUM_PCT" ->
                    AtmPremiumPct(ch, otype, Ks, base, params.pct)
               [] mode = "CLOSEST_DELTA" ->
                    ClosestDelta(ch, otype, params.delta)
               [] mode = "DELTA_RANGE" ->
                    DeltaRange(ch, otype, params.lower, params.upper,
                               params.position)
               [] OTHER -> Unsupported

\* ------------------------------------------------------------------------
\* engine.py : LiveLeg, PendingReEntry
\* ------------------------------------------------------------------------
\* LiveLeg(leg_id, spec, strike, qty) as __init__ leaves it.
LiveLeg(leg_id, spec, strike, qty) ==
    [leg_id |-> leg_id, spec |-> spec, strike |-> strike, qty |-> qty,
     entry_ts |-> None, exit_ts |-> None, entry_px |-> None,
     exit_px |-> None, entry_S |-> None, best_fav_px |-> None,
     pnl |-> 0, hit_sl |-> FALSE, hit_target |-> FALSE, hit_trail |-> FALSE,
     exit_reason |-> "None", re_sl_count |-> 0, re_tgt_count |-> 0]

NextLegIdSame(lv) == Len(lv)

\* len(live)+1, the id of a leg created by re-entry.
NextLegId(lv) == Len(lv) + 1

\* A leg entering at ts at price px with the underlying at S.
EnteredLeg(leg_id, spec, strike, qty, ts, px, S) ==
    [LiveLeg(leg_id, spec, strike, qty) EXCEPT
        !.entry_ts = ts, !.entry_px = px, !.entry_S = S, !.best_fav_px = px]

PendingReEntry(parent, trigger, mode, ts, spec, watch_strike, watch_price) ==
    [parent_leg_id |-> parent, trigger |-> trigger, mode |-> mode,
     created_ts |-> ts, spec |-> spec, watch_strike |-> watch_strike,
     watch_price |-> watch_price]

\* ------------------------------------------------------------------------
\* Strategy configurations the sessions are run with
\* ------------------------------------------------------------------------
Off == RiskRule(FALSE, "premium_pct", 0)

TrailOff == TrailRule(FALSE, "points", 0)

RiskProfiles ==
    { RiskConfig(RiskRule(TRUE, "premium_pct", 25),
                 RiskRule(TRUE, "premium_pct", 25), TrailOff),
      RiskConfig(RiskRule(TRUE, "premium_pts", 0),
                 RiskRule(TRUE, "premium_pts", 0),
                 TrailRule(TRUE, "points", 0)),
      RiskConfig(Off, Off, TrailRule(TRUE, "points", 25)),
      RiskConfig(Off, RiskRule(TRUE, "premium_pts", 25),
                 TrailRule(TRUE, "percent", 25)) }

\* The lazy_leg dicts of the LAZY_LEG rules, by name.
LazyLegDicts == {"lazyBuy"}

\* leg_from_dict: the LegSpec of a lazy_leg dict. The dict carries no
\* re-entry rules, so the LegSpec defaults (disabled) apply.
leg_from_dict(d) ==
    LegSpec("Buy", "CE", 1, "ATM",
            RiskConfig(RiskRule(TRUE, "premium_pct", 25),
                       RiskRule(TRUE, "premium_pct", 25), TrailOff),
            DefaultReEntryRule, DefaultReEntryRule)

\* Pairs <<reentry_on_sl, reentry_on_target>>.
ReEntryProfiles ==
    { <<DefaultReEntryRule, DefaultReEntryRule>>,
      <<ReEntryRule(TRUE, "RE_ASAP", 1, "None"),
        ReEntryRule(TRUE, "RE_ASAP_REV", 2, "None")>>,
      <<ReEntryRule(TRUE, "RE_COST_REV", 1, "None"),
        ReEntryRule(TRUE, "RE_MOMENTUM", 1, "None")>>,
      <<ReEntryRule(TRUE, "LAZY_LEG", 1, "lazyBuy"),
        ReEntryRule(TRUE, "RE_ASAP", 0, "None")>>,
      <<ReEntryRule(TRUE, "RE_COST", 1, "None"),
        ReEntryRule(TRUE, "RE_MOMENTUM_REV", 1, "None")>> }

NoReEntry == <<DefaultReEntryRule, DefaultReEntryRule>>

FirstLegSpecs(profiles) ==
    { LegSpec(pos, "CE", 1, "ATM", risk, re[1], re[2]) :
        pos \in {"Sell", "Buy"}, risk \in RiskProfiles, re \in profiles }

SecondLegSpecs ==
    { LegSpec("Sell", "CE", 2, "OTM1",
              RiskConfig(RiskRule(TRUE, "premium_pct", 25),
                         RiskRule(TRUE, "premium_pct", 25), TrailOff),
              ReEntryRule(FALSE, "RE_ASAP", 3, "None"), DefaultReEntryRule) }

StrategyConfig(mode, legs) ==
    [square_off_mode |-> mode, lot_size |-> 50, legs |-> legs,
     no_reentry_after |-> None, momentum_pts |-> 25,
     per_lot_roundtrip |-> 2, slippage_per_fill |-> 1]

\* no_reentry_after, as the snapshot nearest_ts(under, cutoff) finds.
WithCutoff(c, t) == [c EXCEPT !.no_reentry_after = t]

CutoffProfiles ==
    { <<ReEntryRule(TRUE, "RE_ASAP", 1, "None"),
        ReEntryRule(TRUE, "RE_ASAP_REV", 2, "None")>>,
      <<ReEntryRule(TRUE, "RE_COST", 1, "None"),
        ReEntryRule(TRUE, "RE_MOMENTUM_REV", 1, "None")>> }

QueueingProfile ==
    <<ReEntryRule(TRUE, "RE_COST", 1, "None"),
      ReEntryRule(TRUE, "RE_MOMENTUM_REV", 1, "None")>>

QueueingSecondLeg ==
    LegSpec("Sell", "CE", 2, "OTM1",
            RiskConfig(RiskRule(TRUE, "premium_pct", 25),
                       RiskRule(TRUE, "premium_pct", 25), TrailOff),
            QueueingProfile[1], QueueingProfile[2])

\* A leg whose rules carry mode strings outside REENTRY_MODES: one that
\* begins like no known mode, one that begins with RE_ASAP.
UnknownModeLeg ==
    LegSpec("Sell", "CE", 1, "ATM",
            RiskConfig(RiskRule(TRUE, "premium_pct", 25),
                       RiskRule(TRUE, "premium_pct", 25), TrailOff),
            ReEntryRule(TRUE, "RE_LATER", 2, "None"),
            ReEntryRule(TRUE, "RE_ASAP_NOW", 1, "None"))

\* Two-leg strategies without re-entry, one-leg strategies with it,
\* one-leg strategies with re-entry and a cutoff at the second snapshot,
\* two-leg strategies whose legs both queue their re-entries, and a one-leg
\* strategy with unknown re-entry modes.
Strategies ==
    { StrategyConfig(mode, <<l1, l2>>) :
        mode \in {"Complete", "Partial"},
        l1 \in FirstLegSpecs({NoReEntry}), l2 \in SecondLegSpecs }
    \cup
    { StrategyConfig(mode, <<l1>>) :
        mode \in {"Complete", "Partial"},
        l1 \in FirstLegSpecs(ReEntryProfiles \ {NoReEntry}) }
    \cup
    { WithCutoff(StrategyConfig("Partial", <<l1>>), 1) :
        l1 \in FirstLegSpecs(CutoffProfiles) }
    \cup
    { StrategyConfig("Partial", <<[QueueingSecondLeg EXCEPT !.position = pos,
                                                            !.qty_lots = 1,
                                                            !.strike_type = "ATM"],
                                  QueueingSecondLeg>>) :
        pos \in {"Sell", "Buy"} }
    \cup
    { StrategyConfig("Partial", <<UnknownModeLeg>>) }

\* ------------------------------------------------------------------------
\* State of one Backtester.run_day call
\* ------------------------------------------------------------------------
VARIABLES
    cfg,      \* self.cfg : the StrategyConfig
    live,     \* live : List[LiveLeg]
    pending,  \* pending : List[PendingReEntry]
    rows,     \* the rows this session appended to self.rows
    ts,       \* the snapshot the loop is at (index into the window)
    chain,    \* the option rows at ts: Close by (OptionType, Strike)
    under,    \* the underlying price at ts
    pc,       \* where run_day is
    i,        \* index of the leg the current for-loop is at
    n,        \* length of the list the leg loop iterates, list(live)
    hist,     \* per leg, what the leg loop has read for it: <<ts, px, S>>
    args,     \* the arguments of the helper function under evaluation
    ret,      \* what that function returned, <<>> before the call
    frame,    \* the local variables of a helper function in its loop
    out_csv   \* the rows of the detail CSV file, <<>> while there is none

vars == <<cfg, live, pending, rows, ts, chain, under, pc, i, n, hist, args, ret,
          frame, out_csv>>

Row(ch, otype, strike) == ch[<<otype, strike>>]

Qty(spec) == spec.qty_lots * cfg.lot_size

\* hist extended with an empty history for every leg appended to lv.
Grown(h, lv) ==
    [k \in 1..Len(lv) |-> IF k <= Len(h) THEN h[k] ELSE <<>>]

Init ==
    /\ cfg \in Strategies
    /\ chain \in Chains
    /\ under \in Unders
    /\ ts = 0
    /\ live = <<>>
    /\ pending = <<>>
    /\ rows = <<>>
    /\ pc = "entry"
    /\ i = 0
    /\ n = 0
    /\ hist = <<>>
    /\ args = <<>>
    /\ ret = <<>>
    /\ frame = <<>>
    /\ out_csv = <<>>

\* ---- entry: strike selection and entry prices (lines 313-334) ----------
\* The entry price row: the leg's own row, else the nearest strike's.
EntryRow(ch, otype, strike) ==
    IF Row(ch, otype, strike) # None
    THEN Row(ch, otype, strike)
    ELSE Row(ch, otype, nearest_strike(Quoted(ch, otype), strike))

EntryStrike(ls) ==
    select_strike(chain, ls.option_type, under, StrikeType(ls.strike_type))

Entry ==
    /\ pc = "entry"
    /\ \A k \in 1..Len(cfg.legs) : EntryStrike(cfg.legs[k]) # None
    /\ live' = [k \in 1..Len(cfg.legs) |->
                   LET ls == cfg.legs[k] IN
                   EnteredLeg(k, ls, EntryStrike(ls), Qty(ls), ts,
                              EntryRow(chain, ls.option_type, EntryStrike(ls)),
                              under)]
    /\ hist' = Grown(hist, live')
    /\ i' = 1
    /\ n' = Len(live')
    /\ pc' = "legs"
    /\ UNCHANGED <<args, ret, frame, out_csv, cfg, pending, rows, ts, chain, under>>

\* select_strike raises for a configured leg: run_day ends with the error.
EntryFails ==
    /\ pc = "entry"
    /\ \E k \in 1..Len(cfg.legs) : EntryStrike(cfg.legs[k]) = None
    /\ pc' = "failed"
    /\ UNCHANGED <<args, ret, frame, out_csv, cfg, live, pending, rows, ts, chain, under, i, n, hist>>

\* ---- re-entry (lines 250-311) -------------------------------------------
REENTRY_MODES ==
    {"RE_ASAP", "RE_ASAP_REV", "RE_COST", "RE_COST_REV",
     "RE_MOMENTUM", "RE_MOMENTUM_REV", "LAZY_LEG"}

\* mode.endswith("_REV"), over the mode strings of Strategies.
IsRev(mode) == mode \in {"RE_ASAP_REV", "RE_COST_REV", "RE_MOMENTUM_REV"}

\* mode.startswith("RE_ASAP"), and so for RE_COST and RE_MOMENTUM below, over
\* the mode strings of Strategies.
IsAsap(mode) == mode \in {"RE_ASAP", "RE_ASAP_REV", "RE_ASAP_NOW"}

IsCost(mode) == mode \in {"RE_COST", "RE_COST_REV"}

IsMomentum(mode) == mode \in {"RE_MOMENTUM", "RE_MOMENTUM_REV"}

Min2(a, b) == IF a <= b THEN a ELSE b

Max2(a, b) == IF a >= b THEN a ELSE b

ReentryBlockedIgnoreEnabled(leg, rule, reason) ==
    \/ rule.max_count <= 0
    \/ reason = "SL" /\ leg.re_sl_count >= Min2(20, rule.max_count)
    \/ reason = "TARGET" /\ leg.re_tgt_count >= Min2(20, rule.max_count)

ReentryBlockedNoCap(leg, rule, reason) == ~rule.enabled

\* The guards of _spawn_or_queue_reentry: rule disabled, max_count <= 0, or
\* the leg's counter for the trigger at min(20, max_count).
ReentryBlocked(leg, rule, reason) ==
    \/ ~rule.enabled
    \/ rule.max_count <= 0
    \/ reason = "SL" /\ leg.re_sl_count >= Min2(20, rule.max_count)
    \/ reason = "TARGET" /\ leg.re_tgt_count >= Min2(20, rule.max_count)

AfterCutoffStrict(t) == cfg.no_reentry_after # None /\ t > cfg.no_reentry_after

\* ts >= cutoff when no_reentry_after is set.
AfterCutoff(t) == cfg.no_reentry_after # None /\ t >= cfg.no_reentry_after

Counted(leg, reason) ==
    IF reason = "SL"
    THEN [leg EXCEPT !.re_sl_count = @ + 1]
    ELSE [leg EXCEPT !.re_tgt_count = @ + 1]

\* Which LegSpec object leg.spec is: LiveLeg(i, ls, strike, qty) keeps ls
\* itself, so the k-th configured leg holds cfg.legs[k]; 0 is an object that
\* is none of cfg's.
SpecRef(leg) == IF leg.leg_id <= Len(cfg.legs) THEN leg.leg_id ELSE 0

DeepcopyShared(ref) == ref

\* copy.deepcopy(leg.spec): a new object, none of cfg's.
Deepcopy(ref) == 0

NewPos(leg, rule) ==
    IF IsRev(rule.mode) THEN _reverse_position(leg.spec.position)
                        ELSE leg.spec.position

\* spec.position = new_pos, seen from cfg: written when spec is one of its
\* LegSpec objects.
WritePosition(c, ref, pos) ==
    IF ref > 0 THEN [c EXCEPT !.legs[ref].position = pos] ELSE c

\* The same write seen from the legs that hold the object written.
LegsAfterWrite(lv, ref, pos) ==
    [k \in 1..Len(lv) |->
        IF ref > 0 /\ SpecRef(lv[k]) = ref
        THEN [lv[k] EXCEPT !.spec.position = pos] ELSE lv[k]]

\* The spec of the re-entry leg: a copy of the exited leg's spec with the
\* (possibly reversed) position, or the lazy leg's spec.
ReentrySpec(leg, rule) ==
    IF rule.mode = "LAZY_LEG" /\ rule.lazy_leg \in LazyLegDicts
    THEN leg_from_dict(rule.lazy_leg)
    ELSE [leg.spec EXCEPT !.position = NewPos(leg, rule)]

\* _spawn_or_queue_reentry(ts, leg, reason) for leg lv[idx]: the lists after
\* the call; ok is FALSE when select_strike raised.
_spawn_or_queue_reentry(lv, pend, idx, reason) ==
    LET leg  == lv[idx]
        rule == IF reason = "SL" THEN leg.spec.reentry_on_sl
                                 ELSE leg.spec.reentry_on_target
        ref  == Deepcopy(SpecRef(leg))
        c    == WritePosition(cfg, ref, NewPos(leg, rule))
        lw   == LegsAfterWrite(lv, ref, NewPos(leg, rule))
        spec == ReentrySpec(leg, rule)
        k    == select_strike(chain, spec.option_type, under,
                              StrikeType(spec.strike_type))
        same == [live |-> lv, pending |-> pend, ok |-> TRUE, cfg |-> cfg]
    IN  IF ReentryBlocked(leg, rule, reason) \/ AfterCutoff(ts) THEN same
        ELSE IF IsAsap(rule.mode) \/ rule.mode = "LAZY_LEG"
        THEN IF k = None
             THEN [live |-> lw, pending |-> pend, ok |-> FALSE, cfg |-> c]
             ELSE IF Row(chain, spec.option_type, k) = None
             THEN [live |-> lw, pending |-> pend, ok |-> TRUE, cfg |-> c]
             ELSE [live |-> Append([lw EXCEPT ![idx] = Counted(lw[idx], reason)],
                                   EnteredLeg(NextLegId(lv), spec, k, Qty(spec), ts,
                                              Row(chain, spec.option_type, k),
                                              under)),
                   pending |-> pend, ok |-> TRUE, cfg |-> c]
        ELSE [live |-> [lw EXCEPT ![idx] = Counted(lw[idx], reason)],
              pending |-> Append(pend,
                  PendingReEntry(leg.leg_id, reason, rule.mode, ts, spec,
                                 IF IsCost(rule.mode) THEN leg.strike ELSE None,
                                 leg.entry_px)),
              ok |-> TRUE, cfg |-> c]

\* ---- the leg loop of one snapshot (lines 338-367) -----------------------
\* (px - entry_px) * mult * -1, mult = -1 for a Sell leg and 1 for a Buy leg.
PnlPerUnit(position, entry_px, px) ==
    LET mult == IF _is_short(position) THEN -1 ELSE 1 IN
    (px - entry_px) * mult * (-1)

BestFavSwapped(position, best, px) ==
    IF _is_short(position) THEN Max2(best, px) ELSE Min2(best, px)

\* best favourable premium: min for a short leg, max for a long leg.
BestFav(position, best, px) ==
    IF _is_short(position) THEN Min2(best, px) ELSE Max2(best, px)

ExitAlways(leg) == TRUE

\* "Evaluate exits only if not already closed".
ExitOpen(leg) == leg.exit_ts = None

Exited(leg, t, px, reason) ==
    [leg EXCEPT !.exit_ts = t, !.exit_px = px, !.exit_reason = reason,
                !.hit_target = IF reason = "TARGET" THEN TRUE ELSE @,
                !.hit_sl = IF reason = "SL" THEN TRUE ELSE @,
                !.hit_trail = IF reason = "TRAIL" THEN TRUE ELSE @]

EvalExitStopFirst(leg, t, px, S) ==
    LET rc == leg.spec.risk IN
    IF _hit_stop(rc.sl, leg.spec.position, leg.entry_px, leg.entry_S, px, S)
    THEN Exited(leg, t, px, "SL")
    ELSE IF _hit_target(rc.target, leg.spec.position, leg.entry_px, leg.entry_S, px, S)
    THEN Exited(leg, t, px, "TARGET")
    ELSE IF _trail_stop(rc.trail, leg.spec.position, leg.best_fav_px, px)
    THEN Exited(leg, t, px, "TRAIL")
    ELSE leg

\* target, then stop, then trailing: the first true predicate closes the leg.
EvalExit(leg, t, px, S) ==
    LET rc == leg.spec.risk IN
    IF _hit_target(rc.target, leg.spec.position, leg.entry_px, leg.entry_S, px, S)
    THEN Exited(leg, t, px, "TARGET")
    ELSE IF _hit_stop(rc.sl, leg.spec.position, leg.entry_px, leg.entry_S, px, S)
    THEN Exited(leg, t, px, "SL")
    ELSE IF _trail_stop(rc.trail, leg.spec.position, leg.best_fav_px, px)
    THEN Exited(leg, t, px, "TRAIL")
    ELSE leg

LoopEndLive(cnt, lv) == Len(lv)

\* for leg in list(live): the loop runs over a copy taken at its start.
LoopEnd(cnt, lv) == cnt

RowEmptyNever(px) == FALSE

\* if row.empty: continue
RowEmpty(px) == px = None

\* One iteration of the leg loop, for leg live[i].
LegStep ==
    /\ pc = "legs"
    /\ i <= LoopEnd(n, live)
    /\ LET leg  == live[i]
           px   == Row(chain, leg.spec.option_type, leg.strike)
           upd  == [leg EXCEPT
                      !.pnl = PnlPerUnit(leg.spec.position, leg.entry_px, px) * leg.qty,
                      !.best_fav_px = BestFav(leg.spec.position,
                                              IF @ = None THEN leg.entry_px ELSE @, px)]
           ev   == IF ExitOpen(upd) THEN EvalExit(upd, ts, px, under) ELSE upd
           lv1  == [live EXCEPT ![i] = ev]
           re   == IF ExitOpen(upd) /\ ev.exit_ts # None
                      /\ ev.exit_reason \in {"SL", "TARGET"}
                   THEN _spawn_or_queue_reentry(lv1, pending, i, ev.exit_reason)
                   ELSE [live |-> lv1, pending |-> pending, ok |-> TRUE,
                         cfg |-> cfg]
           h1   == [hist EXCEPT ![i] = Append(@, <<ts, px, under>>)]
       IN  IF RowEmpty(px)
           THEN /\ UNCHANGED <<cfg, live, pending, hist>>
                /\ i' = i + 1
                /\ pc' = IF i >= LoopEnd(n, live) THEN "pending" ELSE "legs"
           ELSE /\ cfg' = re.cfg
                /\ live' = re.live
                /\ pending' = re.pending
                /\ hist' = Grown(h1, re.live)
                /\ i' = i + 1
                /\ pc' = IF ~re.ok THEN "failed"
                         ELSE IF i >= LoopEnd(n, re.live) THEN "pending"
                         ELSE "legs"
    /\ UNCHANGED <<args, ret, frame, out_csv, rows, ts, chain, under, n>>

\* ---- pending re-entries of one snapshot (lines 369-420) -----------------
CostReachedSwapped(pen, ltp) ==
    IF pen.spec.position = "Buy" THEN ltp <= pen.watch_price
                                 ELSE ltp >= pen.watch_price

\* ok = (ltp >= watch_price) if spec.position == "Buy" else (ltp <= watch_price)
CostReached(pen, ltp) ==
    IF pen.spec.position = "Buy" THEN ltp >= pen.watch_price
                                 ELSE ltp <= pen.watch_price

\* One pending entry against the current snapshot: the leg list after it,
\* whether the entry stays queued, and ok = FALSE when select_strike raised.
ResolveOne(pen, lv) ==
    LET spec == pen.spec
        keep == [live |-> lv, keep |-> TRUE, ok |-> TRUE]
        k    == select_strike(chain, spec.option_type, under,
                              StrikeType(spec.strike_type))
        mltp == Row(chain, spec.option_type, k)
        cltp == Row(chain, spec.option_type, pen.watch_strike)
        Spawn(strike, ltp) ==
            [live |-> Append(lv, EnteredLeg(NextLegId(lv), spec, strike,
                                            Qty(spec),
                                            ts, ltp, under)),
             keep |-> FALSE, ok |-> TRUE]
    IN  IF IsMomentum(pen.mode)
        THEN IF cfg.momentum_pts <= 0 THEN keep
             ELSE IF k = None THEN [live |-> lv, keep |-> TRUE, ok |-> FALSE]
             ELSE IF mltp = None THEN keep
             ELSE IF mltp >= pen.watch_price + cfg.momentum_pts
                  THEN Spawn(k, mltp) ELSE keep
        ELSE IF IsCost(pen.mode)
        THEN IF cltp = None THEN keep
             ELSE IF CostReached(pen, cltp)
                  THEN Spawn(pen.watch_strike, cltp) ELSE keep
        ELSE keep

RECURSIVE ResolveAllKeep(_, _, _, _)
ResolveAllKeep(pend, k, lv, newp) ==
    IF k > Len(pend) THEN [live |-> lv, pending |-> newp, ok |-> TRUE]
    ELSE LET r == ResolveOne(pend[k], lv) IN
         IF ~r.ok THEN [live |-> lv, pending |-> newp, ok |-> FALSE]
         ELSE ResolveAllKeep(pend, k + 1, r.live, Append(newp, pend[k]))

RECURSIVE ResolveAll(_, _, _, _)
\* for pen in pending: ... ; pending = new_pending
ResolveAll(pend, k, lv, newp) ==
    IF k > Len(pend) THEN [live |-> lv, pending |-> newp, ok |-> TRUE]
    ELSE LET r == ResolveOne(pend[k], lv) IN
         IF ~r.ok THEN [live |-> lv, pending |-> newp, ok |-> FALSE]
         ELSE ResolveAll(pend, k + 1, r.live,
                         IF r.keep THEN Append(newp, pend[k]) ELSE newp)

EvalPending ==
    /\ pc = "pending"
    /\ LET r == ResolveAll(pending, 1, live, <<>>) IN
       /\ live' = r.live
       /\ pending' = r.pending
       /\ hist' = Grown(hist, r.live)
       /\ pc' = IF r.ok THEN "squareoff" ELSE "failed"
    /\ UNCHANGED <<args, ret, frame, out_csv, cfg, rows, ts, chain, under, i, n>>

\* ---- Complete square-off, or the next snapshot (lines 337, 422-431) -----
AnyHit(lv) == \E k \in 1..Len(lv) : lv[k].hit_sl \/ lv[k].hit_target

SquareOffFires == cfg.square_off_mode = "Complete" /\ AnyHit(live)

ForceClosedNoReason(leg, ch, t, reason) ==
    LET px == Row(ch, leg.spec.option_type, leg.strike) IN
    IF leg.exit_ts = None /\ px # None
    THEN [leg EXCEPT !.exit_ts = t, !.exit_px = px]
    ELSE leg

\* Close leg at the row of its contract in ch at time t, when there is one.
ForceClosed(leg, ch, t, reason) ==
    LET px == Row(ch, leg.spec.option_type, leg.strike) IN
    IF leg.exit_ts = None /\ px # None
    THEN [leg EXCEPT !.exit_ts = t, !.exit_px = px,
                     !.exit_reason = IF @ = "None" THEN reason ELSE @]
    ELSE leg

SquareOff ==
    /\ pc = "squareoff"
    /\ SquareOffFires
    /\ live' = [k \in 1..Len(live) |-> ForceClosed(live[k], chain, ts, "TIME")]
    /\ pc' = "final"
    /\ UNCHANGED <<args, ret, frame, out_csv, cfg, pending, rows, ts, chain, under, i, n, hist>>

NextSnapshot ==
    /\ pc = "squareoff"
    /\ ~SquareOffFires
    /\ ts < LastTs
    /\ ts' = ts + 1
    /\ chain' \in Chains
    /\ under' \in Unders
    /\ i' = 1
    /\ n' = Len(live)
    /\ pc' = "legs"
    /\ UNCHANGED <<args, ret, frame, out_csv, cfg, live, pending, rows, hist>>

EndOfWindow ==
    /\ pc = "squareoff"
    /\ ~SquareOffFires
    /\ ts = LastTs
    /\ pc' = "final"
    /\ UNCHANGED <<args, ret, frame, out_csv, cfg, live, pending, rows, ts, chain, under, i, n, hist>>

\* ---- final force-close at the exit snapshot (lines 433-437) -------------
\* xts is the last snapshot of the window; when the loop broke earlier its
\* rows have not been read yet. The final close sets no exit_reason.
FinalClose ==
    /\ pc = "final"
    /\ \E xchain \in Chains :
         /\ ts = LastTs => xchain = chain
         /\ chain' = xchain
         /\ live' = [k \in 1..Len(live) |->
                        ForceClosed(live[k], xchain, LastTs, "None")]
    /\ i' = 1
    /\ pc' = "emit"
    /\ UNCHANGED <<args, ret, frame, out_csv, cfg, pending, rows, ts, under, n, hist>>

\* ---- row emission (lines 439-454) ---------------------------------------
Costs(leg) ==
    cfg.per_lot_roundtrip * (leg.qty \div cfg.lot_size) + cfg.slippage_per_fill

TradeRow(leg) ==
    LET pnl == PnlPerUnit(leg.spec.position, leg.entry_px, leg.exit_px) * leg.qty IN
    [leg_id |-> leg.leg_id, position |-> leg.spec.position,
     strike |-> leg.strike, qty |-> leg.qty,
     entry_ts |-> leg.entry_ts, exit_ts |-> leg.exit_ts,
     entry_price |-> leg.entry_px, exit_price |-> leg.exit_px,
     pnl |-> pnl, pnl_after_cost |-> pnl - Costs(leg),
     hit_sl |-> leg.hit_sl, hit_target |-> leg.hit_target,
     exit_reason |-> IF leg.exit_reason # "None" THEN leg.exit_reason
                     ELSE IF leg.hit_sl THEN "SL"
                     ELSE IF leg.hit_target THEN "TARGET" ELSE "TIME"]

\* One iteration of the emission loop; exit_px None makes the subtraction
\* raise TypeError and run_day ends with the rows appended so far.
EmitRow ==
    /\ pc = "emit"
    /\ i <= Len(live)
    /\ IF live[i].exit_px = None
       THEN /\ pc' = "failed"
            /\ UNCHANGED <<rows, i>>
       ELSE /\ rows' = Append(rows, TradeRow(live[i]))
            /\ i' = i + 1
            /\ pc' = IF i = Len(live) THEN "done" ELSE "emit"
    /\ UNCHANGED <<args, ret, frame, out_csv, cfg, live, pending, ts, chain, under, n, hist>>

Next ==
    \/ Entry
    \/ EntryFails
    \/ LegStep
    \/ EvalPending
    \/ SquareOff
    \/ NextSnapshot
    \/ EndOfWindow
    \/ FinalClose
    \/ EmitRow

Spec == Init /\ [][Next]_vars

\* ------------------------------------------------------------------------
\* The exit predicates called on their own
\* ------------------------------------------------------------------------
\* No session is running.
SessionIdle ==
    /\ cfg = StrategyConfig("Partial", <<>>)
    /\ chain = [c \in OptionTypes \X Strikes |-> None]
    /\ under = 0
    /\ ts = 0
    /\ live = <<>>
    /\ pending = <<>>
    /\ rows = <<>>
    /\ pc = "idle"
    /\ i = 0
    /\ n = 0
    /\ hist = <<>>

SessionVars == <<cfg, live, pending, rows, ts, chain, under, pc, i, n, hist>>

RiskBases ==
    {"premium_pts", "premium_pct", "underlying_pts", "underlying_pct",
     "PREMIUM_PTS", "points", "percent", "delta"}

RiskValues == {0, 25}

\* RiskRule and TrailRule have the same fields; None for a missing rule.
RiskRules ==
    {RiskRule(e, b, v) : e \in BOOLEAN, b \in RiskBases, v \in RiskValues}
    \cup {NoRule}

RiskPremiums == {75, 100, 125}

RiskArgs ==
    [rule : RiskRules, position : {"Sell", "Buy"}, option_type : {"CE", "PE"},
     entry_px : {0, 100}, entry_S : {100}, ltp : RiskPremiums,
     S : RiskPremiums, best_fav_px : {None, 75, 125}]

RiskInit ==
    /\ SessionIdle
    /\ frame = <<>>
    /\ out_csv = <<>>
    /\ args \in RiskArgs
    /\ ret = <<>>

\* One call of fn with args; option_type is the leg's, which no predicate
\* is given.
Called(fn, value) ==
    /\ ret = <<>>
    /\ ret' = [fn |-> fn, value |-> value]
    /\ UNCHANGED <<args, frame, out_csv, SessionVars>>

CallHitTarget ==
    Called("hit_target",
           Py(hit_target(args.rule, args.position, args.entry_px, args.entry_S,
                         args.ltp, args.S)))

CallHitStop ==
    Called("hit_stop",
           Py(hit_stop(args.rule, args.position, args.entry_px, args.entry_S,
                       args.ltp, args.S)))

CallTrailStop ==
    Called("trail_stop",
           trail_stop(args.rule, args.position, args.best_fav_px, args.ltp))

CallEngineHitTarget ==
    Called("_hit_target",
           Py(_hit_target(args.rule, args.position, args.entry_px, args.entry_S,
                          args.ltp, args.S)))

CallEngineHitStop ==
    Called("_hit_stop",
           Py(_hit_stop(args.rule, args.position, args.entry_px, args.entry_S,
                        args.ltp, args.S)))

CallEngineTrailStop ==
    Called("_trail_stop",
           Py(_trail_stop(args.rule, args.position, args.best_fav_px, args.ltp)))

RiskNext ==
    \/ CallHitTarget
    \/ CallHitStop
    \/ CallTrailStop
    \/ CallEngineHitTarget
    \/ CallEngineHitStop
    \/ CallEngineTrailStop

RiskSpec == RiskInit /\ [][RiskNext]_vars

\* ------------------------------------------------------------------------
\* Calls of select_strike of strikes.py
\* ------------------------------------------------------------------------
StrikeGrid == {24950, 25000, 25050}

Premiums == {50, 100}

\* Chain snapshots: rows of both option types over the grid, any of them
\* missing.
StrikeChains == [{"CE", "PE"} \X StrikeGrid -> Premiums \cup {None}]

StrikeCriteriaSet ==
    {StrikeType(t) : t \in {"ATM", "OTM1", "ITM1", "OTM2"}}
    \cup {StrikeCriteria(m, [value |-> v]) :
             m \in {"PREMIUM_LE", "PREMIUM_GE"}, v \in {25, 75, 125}}
    \cup {StrikeCriteria("PREMIUM_RANGE", [lower |-> 75, upper |-> 125]),
          StrikeCriteria("PREMIUM_RANGE", [lower |-> 175, upper |-> 125]),
          StrikeCriteria("CLOSEST_PREMIUM", [premium |-> 60]),
          StrikeCriteria("ROUND_STRIKE", [value |-> 100]),
          StrikeCriteria("STRADDLE_WIDTH", [sign |-> "+", multiplier |-> 1]),
          StrikeCriteria("STRADDLE_WIDTH", [sign |-> "-", multiplier |-> 1]),
          StrikeCriteria("PCT_OF_ATM", [sign |-> "+", pct |-> 1]),
          StrikeCriteria("SYNTHETIC_FUTURE", [strike_type |-> "OTM1"]),
          StrikeCriteria("ATM_PREMIUM_PCT", [pct |-> 50]),
          StrikeCriteria("CLOSEST_DELTA", [delta |-> 45]),
          StrikeCriteria("DELTA_RANGE",
                         [lower |-> 45, upper |-> 70, position |-> "SELL"]),
          StrikeCriteria("DELTA_RANGE",
                         [lower |-> 10, upper |-> 30, position |-> "BUY"])}

StrikeArgs ==
    [chain : StrikeChains, option_type : {"CE", "PE"},
     atm_price : {24975, 25030}, criteria : StrikeCriteriaSet]

StrikeInit ==
    /\ SessionIdle
    /\ frame = <<>>
    /\ out_csv = <<>>
    /\ args \in StrikeArgs
    /\ ret = <<>>

CallSelectStrike ==
    Called("select_strike",
           select_strike(args.chain, args.option_type, args.atm_price,
                         args.criteria))

StrikeNext == CallSelectStrike

StrikeSpec == StrikeInit /\ [][StrikeNext]_vars

\* ------------------------------------------------------------------------
\* reporting.py : _equity_and_drawdown, and calls of it
\* ------------------------------------------------------------------------
NoCumSum(s) == s

\* pnls.cumsum()
cumsum(s) ==
    LET RECURSIVE Acc(_, _, _)
        Acc(k, total, out) ==
            IF k > Len(s) THEN out
            ELSE Acc(k + 1, total + s[k], Append(out, total + s[k]))
    IN  Acc(1, 0, <<>>)

CumMin(s) ==
    [k \in 1..Len(s) |-> MinOf({s[m] : m \in 1..k})]

\* eq.cummax()
cummax(s) ==
    LET RECURSIVE Acc(_, _)
        Acc(k, out) ==
            IF k > Len(s) THEN out
            ELSE Acc(k + 1,
                     Append(out, IF k = 1 THEN s[1] ELSE Max2(out[k - 1], s[k])))
    IN  Acc(1, <<>>)

\* np.isclose(x, 0) for a whole amount x: |x| <= 1e-8.
IsCloseZero(x) == Abs(x) < 1

\* idxmin / idxmax of the first n entries: the first position of the
\* extreme, as a 0-based index label.
IdxMin(s, len) ==
    MinOf({k \in 1..len : \A m \in 1..len : s[k] <= s[m]}) - 1

IdxMax(s, len) ==
    MinOf({k \in 1..len : \A m \in 1..len : s[k] >= s[m]}) - 1

RecoveryIdxLast(dd, end_idx) == Len(dd) - 1

\* rec_idx: the first index after end_idx where dd == 0, else the last index.
RecoveryIdx(dd, end_idx) ==
    LET after == {k \in (end_idx + 2)..Len(dd) : dd[k] = 0}
    IN  IF after # {} THEN MinOf(after) - 1 ELSE Len(dd) - 1

\* _equity_and_drawdown(pnls): (eq, dd, max_dd, duration, start_idx, rec_idx)
\* with 0-based indices.
_equity_and_drawdown(pnls) ==
    LET eq      == cumsum(pnls)
        peak    == cummax(eq)
        dd      == [k \in 1..Len(eq) |-> eq[k] - peak[k]]
        max_dd  == IF Len(dd) > 0 THEN MinOf({dd[k] : k \in 1..Len(dd)}) ELSE 0
        end_idx == IdxMin(dd, Len(dd))
        start_idx == IdxMax(eq, end_idx + 1)
        rec_idx == RecoveryIdx(dd, end_idx)
    IN  IF Len(dd) = 0 \/ IsCloseZero(max_dd)
        THEN [eq |-> eq, dd |-> dd, max_dd |-> 0, duration |-> 0,
              start_idx |-> 0, rec_idx |-> 0]
        ELSE [eq |-> eq, dd |-> dd, max_dd |-> max_dd,
              duration |-> rec_idx - start_idx + 1,
              start_idx |-> start_idx, rec_idx |-> rec_idx]

\* _streaks(x): (max_win, max_loss), the longest runs of True and of
\* not-True entries of the boolean series x.
_streaks(x) ==
    LET RECURSIVE Loop(_, _, _, _, _)
        Loop(k, max_win, max_loss, cur_win, cur_loss) ==
            IF k > Len(x) THEN [max_win |-> max_win, max_loss |-> max_loss]
            ELSE IF x[k]
            THEN Loop(k + 1, Max2(max_win, cur_win + 1), max_loss,
                      cur_win + 1, 0)
            ELSE Loop(k + 1, max_win, Max2(max_loss, cur_loss + 1),
                      0, cur_loss + 1)
    IN  Loop(1, 0, 0, 0, 0)

\* wins = trades["trade_pnl"] > 0 of summarize_trades.
Wins(pnls) == [k \in 1..Len(pnls) |-> pnls[k] > 0]

MaxTrades == 5

PnlValues == {-20, -5, 0, 5, 8, 10, 12}

\* Per-trade PnL series of up to MaxTrades trades.
PnlSeries == UNION {[1..len -> PnlValues] : len \in 0..MaxTrades}

ReportInit ==
    /\ SessionIdle
    /\ frame = <<>>
    /\ out_csv = <<>>
    /\ args \in [pnls : PnlSeries]
    /\ ret = <<>>

CallEquityAndDrawdown ==
    Called("_equity_and_drawdown", _equity_and_drawdown(args.pnls))

\* max_win_streak, max_lose_streak = _streaks(wins) of summarize_trades.
CallStreaks ==
    Called("_streaks", _streaks(Wins(args.pnls)))

ReportNext == CallEquityAndDrawdown \/ CallStreaks

ReportSpec == ReportInit /\ [][ReportNext]_vars

\* ------------------------------------------------------------------------
\* greeks_helper.py : bs_price, iv_from_price, and calls of them
\* ------------------------------------------------------------------------
\* Volatilities are positions on a grid of IvGrid equal parts of [lo, hi] =
\* [1e-6, 5.0]: position M is sigma = lo + (hi - lo) * M / IvGrid, so that
\* thirty halvings of [lo, hi] are exact. Prices are in units of 1e-7, T in
\* hundredths of a year, r and q in percent.
IvGrid == 1073741824

\* tol = 1e-6 and max_iter = 100 of iv_from_price.
IvTol == 10

IvMaxIter == 100

\* The values of the Black-Scholes formula of bs_price (T > 0, sigma > 0,
\* r = 0.06, q = 0), rounded to the price unit, at <<S, K, T, cp, M>>.
BsPriceTable ==
    <<100, 100, 25, "C", 0>> :> 14888060 @@
    <<100, 100, 25, "C", 16777216>> :> 24037256 @@
    <<100, 100, 25, "C", 20971520>> :> 27681814 @@
    <<100, 100, 25, "C", 21233664>> :> 27912415 @@
    <<100, 100, 25, "C", 21364736>> :> 28027815 @@
    <<100, 100, 25, "C", 21430272>> :> 28085538 @@
    <<100, 100, 25, "C", 21463040>> :> 28114406 @@
    <<100, 100, 25, "C", 21471232>> :> 28121624 @@
    <<100, 100, 25, "C", 21473280>> :> 28123428 @@
    <<100, 100, 25, "C", 21474304>> :> 28124330 @@
    <<100, 100, 25, "C", 21474560>> :> 28124556 @@
    <<100, 100, 25, "C", 21474624>> :> 28124612 @@
    <<100, 100, 25, "C", 21474627>> :> 28124615 @@
    <<100, 100, 25, "C", 21474688>> :> 28124669 @@
    <<100, 100, 25, "C", 21474816>> :> 28124781 @@
    <<100, 100, 25, "C", 21475328>> :> 28125232 @@
    <<100, 100, 25, "C", 21479424>> :> 28128841 @@
    <<100, 100, 25, "C", 21495808>> :> 28143278 @@
    <<100, 100, 25, "C", 22020096>> :> 28605747 @@
    <<100, 100, 25, "C", 23068672>> :> 29533434 @@
    <<100, 100, 25, "C", 25165824>> :> 31398215 @@
    <<100, 100, 25, "C", 33554432>> :> 38939716 @@
    <<100, 100, 25, "C", 67108864>> :> 69536050 @@
    <<100, 100, 25, "C", 100663296>> :> 100226991 @@
    <<100, 100, 25, "C", 104857600>> :> 104058685 @@
    <<100, 100, 25, "C", 106954752>> :> 105973904 @@
    <<100, 100, 25, "C", 107216896>> :> 106213275 @@
    <<100, 100, 25, "C", 107347968>> :> 106332958 @@
    <<100, 100, 25, "C", 107364352>> :> 106347918 @@
    <<100, 100, 25, "C", 107372544>> :> 106355398 @@
    <<100, 100, 25, "C", 107373568>> :> 106356333 @@
    <<100, 100, 25, "C", 107373824>> :> 106356567 @@
    <<100, 100, 25, "C", 107373952>> :> 106356684 @@
    <<100, 100, 25, "C", 107373984>> :> 106356713 @@
    <<100, 100, 25, "C", 107373989>> :> 106356718 @@
    <<100, 100, 25, "C", 107374016>> :> 106356743 @@
    <<100, 100, 25, "C", 107374080>> :> 106356801 @@
    <<100, 100, 25, "C", 107374592>> :> 106357268 @@
    <<100, 100, 25, "C", 107376640>> :> 106359138 @@
    <<100, 100, 25, "C", 107380736>> :> 106362879 @@
    <<100, 100, 25, "C", 107413504>> :> 106392799 @@
    <<100, 100, 25, "C", 107479040>> :> 106452639 @@
    <<100, 100, 25, "C", 108003328>> :> 106931347 @@
    <<100, 100, 25, "C", 109051904>> :> 107888676 @@
    <<100, 100, 25, "C", 117440512>> :> 115542936 @@
    <<100, 100, 25, "C", 134217728>> :> 130824744 @@
    <<100, 100, 25, "C", 201326592>> :> 191463346 @@
    <<100, 100, 25, "C", 209715200>> :> 198975029 @@
    <<100, 100, 25, "C", 213909504>> :> 202724313 @@
    <<100, 100, 25, "C", 214433792>> :> 203192659 @@
    <<100, 100, 25, "C", 214695936>> :> 203426806 @@
    <<100, 100, 25, "C", 214728704>> :> 203456073 @@
    <<100, 100, 25, "C", 214745088>> :> 203470707 @@
    <<100, 100, 25, "C", 214747136>> :> 203472536 @@
    <<100, 100, 25, "C", 214748160>> :> 203473451 @@
    <<100, 100, 25, "C", 214748192>> :> 203473479 @@
    <<100, 100, 25, "C", 214748193>> :> 203473480 @@
    <<100, 100, 25, "C", 214748224>> :> 203473508 @@
    <<100, 100, 25, "C", 214748288>> :> 203473565 @@
    <<100, 100, 25, "C", 214748416>> :> 203473679 @@
    <<100, 100, 25, "C", 214748672>> :> 203473908 @@
    <<100, 100, 25, "C", 214749184>> :> 203474365 @@
    <<100, 100, 25, "C", 214753280>> :> 203478023 @@
    <<100, 100, 25, "C", 214761472>> :> 203485340 @@
    <<100, 100, 25, "C", 214827008>> :> 203543873 @@
    <<100, 100, 25, "C", 214958080>> :> 203660936 @@
    <<100, 100, 25, "C", 216006656>> :> 204597277 @@
    <<100, 100, 25, "C", 218103808>> :> 206469107 @@
    <<100, 100, 25, "C", 234881024>> :> 221401648 @@
    <<100, 100, 25, "C", 268435456>> :> 251025168 @@
    <<100, 100, 25, "C", 536870912>> :> 472018346 @@
    <<100, 100, 25, "C", 1073741824>> :> 790281531 @@
    <<100, 100, 25, "P", 0>> :> 0 @@
    <<100, 100, 25, "P", 16777216>> :> 9149195 @@
    <<100, 100, 25, "P", 20971520>> :> 12793753 @@
    <<100, 100, 25, "P", 21233664>> :> 13024355 @@
    <<100, 100, 25, "P", 21364736>> :> 13139754 @@
    <<100, 100, 25, "P", 21430272>> :> 13197478 @@
    <<100, 100, 25, "P", 21463040>> :> 13226346 @@
    <<100, 100, 25, "P", 21471232>> :> 13233563 @@
    <<100, 100, 25, "P", 21473280>> :> 13235368 @@
    <<100, 100, 25, "P", 21474304>> :> 13236270 @@
    <<100, 100, 25, "P", 21474560>> :> 13236495 @@
    <<100, 100, 25, "P", 21474624>> :> 13236552 @@
    <<100, 100, 25, "P", 21474627>> :> 13236554 @@
    <<100, 100, 25, "P", 21474688>> :> 13236608 @@
    <<100, 100, 25, "P", 21474816>> :> 13236721 @@
    <<100, 100, 25, "P", 21475328>> :> 13237172 @@
    <<100, 100, 25, "P", 21479424>> :> 13240781 @@
    <<100, 100, 25, "P", 21495808>> :> 13255217 @@
    <<100, 100, 25, "P", 22020096>> :> 13717687 @@
    <<100, 100, 25, "P", 23068672>> :> 14645374 @@
    <<100, 100, 25, "P", 25165824>> :> 16510155 @@
    <<100, 100, 25, "P", 33554432>> :> 24051656 @@
    <<100, 100, 25, "P", 67108864>> :> 54647990 @@
    <<100, 100, 25, "P", 100663296>> :> 85338930 @@
    <<100, 100, 25, "P", 104857600>> :> 89170625 @@
    <<100, 100, 25, "P", 106954752>> :> 91085843 @@
    <<100, 100, 25, "P", 107216896>> :> 91325215 @@
    <<100, 100, 25, "P", 107347968>> :> 91444898 @@
    <<100, 100, 25, "P", 107364352>> :> 91459858 @@
    <<100, 100, 25, "P", 107372544>> :> 91467338 @@
    <<100, 100, 25, "P", 107373568>> :> 91468273 @@
    <<100, 100, 25, "P", 107373824>> :> 91468507 @@
    <<100, 100, 25, "P", 107373952>> :> 91468624 @@
    <<100, 100, 25, "P", 107373984>> :> 91468653 @@
    <<100, 100, 25, "P", 107373989>> :> 91468657 @@
    <<100, 100, 25, "P", 107374016>> :> 91468682 @@
    <<100, 100, 25, "P", 107374080>> :> 91468741 @@
    <<100, 100, 25, "P", 107374592>> :> 91469208 @@
    <<100, 100, 25, "P", 107376640>> :> 91471078 @@
    <<100, 100, 25, "P", 107380736>> :> 91474818 @@
    <<100, 100, 25, "P", 107413504>> :> 91504739 @@
    <<100, 100, 25, "P", 107479040>> :> 91564579 @@
    <<100, 100, 25, "P", 108003328>> :> 92043286 @@
    <<100, 100, 25, "P", 109051904>> :> 93000616 @@
    <<100, 100, 25, "P", 117440512>> :> 100654875 @@
    <<100, 100, 25, "P", 134217728>> :> 115936684 @@
    <<100, 100, 25, "P", 201326592>> :> 176575285 @@
    <<100, 100, 25, "P", 209715200>> :> 184086968 @@
    <<100, 100, 25, "P", 213909504>> :> 187836252 @@
    <<100, 100, 25, "P", 214433792>> :> 188304599 @@
    <<100, 100, 25, "P", 214695936>> :> 188538746 @@
    <<100, 100, 25, "P", 214728704>> :> 188568013 @@
    <<100, 100, 25, "P", 214745088>> :> 188582646 @@
    <<100, 100, 25, "P", 214747136>> :> 188584476 @@
    <<100, 100, 25, "P", 214748160>> :> 188585390 @@
    <<100, 100, 25, "P", 214748192>> :> 188585419 @@
    <<100, 100, 25, "P", 214748193>> :> 188585420 @@
    <<100, 100, 25, "P", 214748224>> :> 188585447 @@
    <<100, 100, 25, "P", 214748288>> :> 188585504 @@
    <<100, 100, 25, "P", 214748416>> :> 188585619 @@
    <<100, 100, 25, "P", 214748672>> :> 188585847 @@
    <<100, 100, 25, "P", 214749184>> :> 188586305 @@
    <<100, 100, 25, "P", 214753280>> :> 188589963 @@
    <<100, 100, 25, "P", 214761472>> :> 188597280 @@
    <<100, 100, 25, "P", 214827008>> :> 188655813 @@
    <<100, 100, 25, "P", 214958080>> :> 188772875 @@
    <<100, 100, 25, "P", 216006656>> :> 189709216 @@
    <<100, 100, 25, "P", 218103808>> :> 191581047 @@
    <<100, 100, 25, "P", 234881024>> :> 206513588 @@
    <<100, 100, 25, "P", 268435456>> :> 236137108 @@
    <<100, 100, 25, "P", 536870912>> :> 457130285 @@
    <<100, 100, 25, "P", 1073741824>> :> 775393470 @@
    <<100, 120, 1, "C", 0>> :> 0 @@ <<100, 120, 1, "C", 21474627>> :> 0 @@
    <<100, 120, 1, "C", 67108864>> :> 0 @@
    <<100, 120, 1, "C", 100663296>> :> 629 @@
    <<100, 120, 1, "C", 104857600>> :> 1266 @@
    <<100, 120, 1, "C", 106954752>> :> 1748 @@
    <<100, 120, 1, "C", 107216896>> :> 1817 @@
    <<100, 120, 1, "C", 107347968>> :> 1853 @@
    <<100, 120, 1, "C", 107373989>> :> 1860 @@
    <<100, 120, 1, "C", 107479040>> :> 1889 @@
    <<100, 120, 1, "C", 108003328>> :> 2040 @@
    <<100, 120, 1, "C", 109051904>> :> 2373 @@
    <<100, 120, 1, "C", 117440512>> :> 6983 @@
    <<100, 120, 1, "C", 134217728>> :> 36108 @@
    <<100, 120, 1, "C", 201326592>> :> 1025779 @@
    <<100, 120, 1, "C", 209715200>> :> 1306830 @@
    <<100, 120, 1, "C", 213909504>> :> 1462960 @@
    <<100, 120, 1, "C", 214433792>> :> 1483214 @@
    <<100, 120, 1, "C", 214695936>> :> 1493403 @@
    <<100, 120, 1, "C", 214728704>> :> 1494680 @@
    <<100, 120, 1, "C", 214745088>> :> 1495318 @@
    <<100, 120, 1, "C", 214747136>> :> 1495398 @@
    <<100, 120, 1, "C", 214748160>> :> 1495438 @@
    <<100, 120, 1, "C", 214748193>> :> 1495440 @@
    <<100, 120, 1, "C", 214749184>> :> 1495478 @@
    <<100, 120, 1, "C", 214753280>> :> 1495638 @@
    <<100, 120, 1, "C", 214761472>> :> 1495957 @@
    <<100, 120, 1, "C", 214827008>> :> 1498513 @@
    <<100, 120, 1, "C", 214958080>> :> 1503634 @@
    <<100, 120, 1, "C", 216006656>> :> 1544966 @@
    <<100, 120, 1, "C", 218103808>> :> 1629611 @@
    <<100, 120, 1, "C", 234881024>> :> 2402120 @@
    <<100, 120, 1, "C", 268435456>> :> 4447727 @@
    <<100, 120, 1, "C", 536870912>> :> 37200505 @@
    <<100, 120, 1, "C", 1073741824>> :> 131283790 @@
    <<100, 120, 1, "P", 0>> :> 199280216 @@
    <<100, 120, 1, "P", 21474627>> :> 199280216 @@
    <<100, 120, 1, "P", 67108864>> :> 199280216 @@
    <<100, 120, 1, "P", 100663296>> :> 199280845 @@
    <<100, 120, 1, "P", 104857600>> :> 199281482 @@
    <<100, 120, 1, "P", 106954752>> :> 199281964 @@
    <<100, 120, 1, "P", 107216896>> :> 199282033 @@
    <<100, 120, 1, "P", 107347968>> :> 199282069 @@
    <<100, 120, 1, "P", 107373989>> :> 199282076 @@
    <<100, 120, 1, "P", 107479040>> :> 199282105 @@
    <<100, 120, 1, "P", 108003328>> :> 199282256 @@
    <<100, 120, 1, "P", 109051904>> :> 199282589 @@
    <<100, 120, 1, "P", 117440512>> :> 199287199 @@
    <<100, 120, 1, "P", 134217728>> :> 199316324 @@
    <<100, 120, 1, "P", 201326592>> :> 200305995 @@
    <<100, 120, 1, "P", 209715200>> :> 200587046 @@
    <<100, 120, 1, "P", 213909504>> :> 200743176 @@
    <<100, 120, 1, "P", 214433792>> :> 200763430 @@
    <<100, 120, 1, "P", 214695936>> :> 200773619 @@
    <<100, 120, 1, "P", 214728704>> :> 200774896 @@
    <<100, 120, 1, "P", 214745088>> :> 200775534 @@
    <<100, 120, 1, "P", 214747136>> :> 200775614 @@
    <<100, 120, 1, "P", 214748160>> :> 200775654 @@
    <<100, 120, 1, "P", 214748193>> :> 200775655 @@
    <<100, 120, 1, "P", 214749184>> :> 200775694 @@
    <<100, 120, 1, "P", 214753280>> :> 200775854 @@
    <<100, 120, 1, "P", 214761472>> :> 200776173 @@
    <<100, 120, 1, "P", 214827008>> :> 200778729 @@
    <<100, 120, 1, "P", 214958080>> :> 200783850 @@
    <<100, 120, 1, "P", 216006656>> :> 200825182 @@
    <<100, 120, 1, "P", 218103808>> :> 200909827 @@
    <<100, 120, 1, "P", 234881024>> :> 201682336 @@
    <<100, 120, 1, "P", 268435456>> :> 203727943 @@
    <<100, 120, 1, "P", 536870912>> :> 236480721 @@
    <<100, 120, 1, "P", 1073741824>> :> 330564006

bs_price(S, K, T, r, q, sigma, cp) == BsPriceTable[<<S, K, T, cp, sigma>>]

\* max(lo, min(m, hi))
IvClamp(m) == Max2(0, Min2(m, IvGrid))

\* The options priced, the volatilities they are priced at, and the
\* arguments of the round trip.
IvArgs ==
    {[S |-> o.S, K |-> o.K, T |-> o.T, r |-> 6, q |-> 0, cp |-> cp,
      sigma |-> sg] :
        o \in {[S |-> 100, K |-> 100, T |-> 25],
               [S |-> 100, K |-> 120, T |-> 1]},
        cp \in {"C", "P"},
        sg \in {21474627, 107373989, 214748193}}

IvInit ==
    /\ SessionIdle
    /\ args \in IvArgs
    /\ ret = <<>>
    /\ frame = <<>>
    /\ out_csv = <<>>

\* iv_from_price(S, K, T, r, q, cp, price) for price = bs_price(..., sigma,
\* cp), up to the loop: the price is clamped at the bounds' prices.
IvStart ==
    /\ args \in IvArgs
    /\ ret = <<>>
    /\ frame = <<>>
    /\ LET p   == Max2(bs_price(args.S, args.K, args.T, args.r, args.q,
                                args.sigma, args.cp), 0)
           plo == bs_price(args.S, args.K, args.T, args.r, args.q, 0, args.cp)
           phi == bs_price(args.S, args.K, args.T, args.r, args.q, IvGrid,
                           args.cp)
       IN  IF p <= plo
           THEN ret' = [fn |-> "iv_from_price", value |-> 0] /\ frame' = frame
           ELSE IF p >= phi
           THEN ret' = [fn |-> "iv_from_price", value |-> IvGrid]
                /\ frame' = frame
           ELSE ret' = ret /\ frame' = [a |-> 0, b |-> IvGrid, it |-> 0, p |-> p]
    /\ UNCHANGED <<args, out_csv, SessionVars>>

\* One pass of the bisection loop, or the return after max_iter passes.
IvIterate ==
    /\ ret = <<>>
    /\ frame # <<>>
    /\ LET m  == frame.a + (frame.b - frame.a) \div 2
           pm == bs_price(args.S, args.K, args.T, args.r, args.q, m, args.cp)
       IN  IF frame.it >= IvMaxIter
           THEN ret' = [fn |-> "iv_from_price", value |-> IvClamp(m)]
                /\ frame' = frame
           ELSE IF Abs(pm - frame.p) < IvTol
           THEN ret' = [fn |-> "iv_from_price", value |-> IvClamp(m)]
                /\ frame' = frame
           ELSE /\ ret' = ret
                /\ frame' = IF pm > frame.p
                             THEN [frame EXCEPT !.b = m, !.it = @ + 1]
                             ELSE [frame EXCEPT !.a = m, !.it = @ + 1]
    /\ UNCHANGED <<args, out_csv, SessionVars>>

IvNext == IvStart \/ IvIterate

IvSpec == IvInit /\ [][IvNext]_vars

\* ------------------------------------------------------------------------
\* engine.py : expiry helpers, and calls of resolve_expiry_keyword
\* ------------------------------------------------------------------------
\* Dates are days counted from 2025-08-01 (day 0, a Friday); the calendar
\* runs to 2025-12-31.
Weekday(d) == (d + 4) % 7

\* The first days of August .. December 2025, and of January 2026.
MonthFirsts == <<0, 31, 61, 92, 122, 153>>

\* date.replace(day=1), and the first day of the month after date's.
MonthFirst(d) ==
    MaxOf({MonthFirsts[m] : m \in {k \in 1..5 : MonthFirsts[k] <= d}})

NextMonthFirst(d) ==
    MinOf({MonthFirsts[m] : m \in {k \in 2..6 : MonthFirsts[k] > d}})

\* switch = dt.date(2025,9,1); wd = 1 if date >= switch else 3
ExpiryWeekday(date) == IF date >= 31 THEN 1 ELSE 3

weekly_expiry_for(date) ==
    MinOf({d \in date..(date + 6) : Weekday(d) = ExpiryWeekday(date)})

\* The last Tuesday (Thursday before the switch) of date's month.
monthly_expiry_for(date) ==
    LET last == NextMonthFirst(date) - 1
    IN  MaxOf({d \in (last - 6)..last : Weekday(d) = ExpiryWeekday(date)})

next_weekly_expiry_for(date) ==
    weekly_expiry_for(weekly_expiry_for(date) + 1)

\* nm = (this.replace(day=1) + 32 days).replace(day=1)
next_monthly_expiry_for(date) ==
    monthly_expiry_for(MonthFirst(MonthFirst(monthly_expiry_for(date)) + 32))

\* key is (keyword or "Weekly").replace(" ", "").lower(), over the keywords
\* used.
resolve_expiry_keyword(date, keyword) ==
    LET key == CASE keyword = "None"         -> "weekly"
                 [] keyword = "Weekly"       -> "weekly"
                 [] keyword = "NextWeekly"   -> "nextweekly"
                 [] keyword = "Monthly"      -> "monthly"
                 [] keyword = "Next Monthly" -> "nextmonthly"
                 [] keyword = "Quarterly"    -> "quarterly"
    IN  CASE key = "weekly"      -> weekly_expiry_for(date)
          [] key = "nextweekly"  -> next_weekly_expiry_for(date)
          [] key = "monthly"     -> monthly_expiry_for(date)
          [] key = "nextmonthly" -> next_monthly_expiry_for(date)
          [] OTHER               -> weekly_expiry_for(date)

\* Session dates 2025-08-01 .. 2025-10-31 and the keywords, None included.
ExpiryInit ==
    /\ SessionIdle
    /\ args \in [date : 0..91,
                 keyword : {"None", "Weekly", "NextWeekly", "Monthly",
                            "Next Monthly", "Quarterly"}]
    /\ ret = <<>>
    /\ frame = <<>>
    /\ out_csv = <<>>

CallResolveExpiry ==
    Called("resolve_expiry_keyword",
           resolve_expiry_keyword(args.date, args.keyword))

ExpiryNext == CallResolveExpiry

ExpirySpec == ExpiryInit /\ [][ExpiryNext]_vars

\* ------------------------------------------------------------------------
\* engine.py : Backtester.flush, reporting.py : flush_results
\* ------------------------------------------------------------------------
\* The sessions of one Backtester are numbered 1, 2, ... in place of dates;
\* a row is kept as its date, leg_id and pnl_after_cost.
MaxSessions == 2

\* Flushing stops once the detail CSV would exceed this many rows.
MaxCsvRows == 8

\* The rows one run_day call appends: one row per leg, leg ids 1, 2, ...
DayRows(date) ==
    {[k \in 1..m |-> [date |-> date, leg_id |-> k, pnl_after_cost |-> f[k]]] :
        m \in 1..2, f \in [1..2 -> {-5, 10}]}

\* _as_trades: trade_pnl per group, the groups in ascending key order; the
\* key is (date, leg_id) in leg scope and date in package scope.
TradeKey(row, scope) ==
    IF scope = "leg" THEN 10 * row.date + row.leg_id ELSE 10 * row.date

RECURSIVE SumPnl(_, _, _)
SumPnl(df, key, scope) ==
    IF df = <<>> THEN 0
    ELSE (IF TradeKey(Head(df), scope) = key
          THEN Head(df).pnl_after_cost ELSE 0)
         + SumPnl(Tail(df), key, scope)

RECURSIVE SortedKeys(_)
SortedKeys(K) ==
    IF K = {} THEN <<>>
    ELSE <<MinOf(K)>> \o SortedKeys(K \ {MinOf(K)})

_as_trades(df, scope) ==
    LET keys == SortedKeys({TradeKey(df[r], scope) : r \in 1..Len(df)})
    IN  [t \in 1..Len(keys) |-> SumPnl(df, keys[t], scope)]

\* The counts and sums of summarize_trades' metrics.
summarize_trades(csv, scope) ==
    LET trades == _as_trades(csv, scope)
        eq     == cumsum(trades)
    IN  [num_trades     |-> Len(trades),
         overall_profit |-> IF trades = <<>> THEN 0 ELSE eq[Len(eq)]]

BacktesterInit ==
    /\ cfg \in {StrategyConfig("Partial", <<>>), StrategyConfig("Complete", <<>>)}
    /\ chain = [c \in OptionTypes \X Strikes |-> None]
    /\ under = 0
    /\ ts = 0
    /\ live = <<>>
    /\ pending = <<>>
    /\ rows = <<>>
    /\ pc = "idle"
    /\ i = 0
    /\ n = 0
    /\ hist = <<>>
    /\ args = <<>>
    /\ ret = <<>>
    /\ frame = <<>>
    /\ out_csv = <<>>

\* One run_day call, by what it leaves in self.rows: the rows of its legs
\* appended to the rows of the earlier sessions.
RunDay ==
    /\ n < MaxSessions
    /\ \E day \in DayRows(n + 1) : rows' = rows \o day
    /\ n' = n + 1
    /\ ret' = [fn |-> "run_day", value |-> None]
    /\ UNCHANGED <<args, frame, out_csv, cfg, live, pending, ts, chain, under,
                   pc, i, hist>>

\* Backtester.flush: nothing without rows; else flush_results writes the
\* rows after the rows of the CSV file when it exists (<<>> when not) and
\* computes the metrics from the file, in package scope when the square-off
\* mode is Complete. self.rows is left as it is.
Flush ==
    /\ rows # <<>>
    /\ Len(out_csv) + Len(rows) <= MaxCsvRows
    /\ out_csv' = out_csv \o rows
    /\ ret' = [fn |-> "flush",
               value |-> summarize_trades(out_csv',
                             IF cfg.square_off_mode \in {"Complete", "complete"}
                             THEN "package" ELSE "leg")]
    /\ UNCHANGED <<args, frame, SessionVars>>

BacktesterNext == RunDay \/ Flush

BacktesterSpec == BacktesterInit /\ [][BacktesterNext]_vars

\* ------------------------------------------------------------------------
\* Properties
\* ------------------------------------------------------------------------
Legs == 1..Len(live)

\* The marks the leg loop has read for leg k, in order.
MarksRead(k) == {hist[k][j][2] : j \in 1..Len(hist[k])}

\* C1: once a leg's exit_ts is set, its exit_ts, exit_px and exit_reason
\* are the same after every later step of the session.
C1_ExitRecordedOnce ==
    [][\A k \in Legs :
          live[k].exit_ts # None =>
             /\ live'[k].exit_ts = live[k].exit_ts
             /\ live'[k].exit_px = live[k].exit_px
             /\ live'[k].exit_reason = live[k].exit_reason]_vars

\* A closed leg whose contract the leg loop read again at a later snapshot.
C1_Witness ==
    \E k \in Legs :
       /\ live[k].exit_ts # None
       /\ live[k].exit_reason \in {"TARGET", "SL", "TRAIL"}
       /\ \E j \in 1..Len(hist[k]) : hist[k][j][1] > live[k].exit_ts

\* C2: once a leg's exit_ts is set, no later step changes its running pnl
\* or its best_fav_px.
C2_ClosedLegImmutable ==
    [][\A k \in Legs :
          live[k].exit_ts # None =>
             /\ live'[k].pnl = live[k].pnl
             /\ live'[k].best_fav_px = live[k].best_fav_px]_vars

\* The snapshot t has been processed to its end (leg loop, pending
\* re-entries and square-off).
SnapshotDone(t) == t < ts \/ pc \in {"final", "emit", "done"}

\* C3: with square_off_mode Complete, once the snapshot in which a leg
\* exited with TARGET, SL or TRAIL has been processed, every leg of the
\* session is closed with an exit_ts no later than that snapshot.
C3_CompleteClosesAll ==
    cfg.square_off_mode = "Complete" =>
       \A a \in Legs :
          (/\ live[a].exit_reason \in {"TARGET", "SL", "TRAIL"}
           /\ SnapshotDone(live[a].exit_ts))
          => \A b \in Legs :
                live[b].exit_ts # None /\ live[b].exit_ts <= live[a].exit_ts

\* C4: when the rows are emitted every leg of the session is closed, and every
\* emitted row has an exit_ts and an exit_price.
C4_AllLegsClosedAtEnd ==
    /\ pc \in {"emit", "done"} =>
          \A k \in Legs : live[k].exit_ts # None /\ live[k].exit_px # None
    /\ \A r \in 1..Len(rows) :
          rows[r].exit_ts # None /\ rows[r].exit_price # None

\* C5: each leg's re-entry counters stay within min(20, max_count) of the
\* rule of their trigger.
C5_ReentryCountersCapped ==
    \A k \in Legs :
       /\ live[k].re_sl_count <= Min2(20, live[k].spec.reentry_on_sl.max_count)
       /\ live[k].re_tgt_count <= Min2(20, live[k].spec.reentry_on_target.max_count)

\* A leg whose exit spawned or queued a re-entry and used up its cap.
C5_Witness ==
    \E k \in Legs :
       /\ live[k].re_sl_count > 0
       /\ live[k].re_sl_count = Min2(20, live[k].spec.reentry_on_sl.max_count)

\* C6: every row has pnl = (exit_price - entry_price) * sign * qty, sign +1
\* for Buy and -1 for Sell, and pnl_after_cost = pnl - (per_lot_roundtrip *
\* qty / lot_size + slippage_per_fill).
C6_RowPnl ==
    \A r \in 1..Len(rows) :
       LET row  == rows[r]
           sign == IF row.position = "Sell" THEN -1 ELSE 1
       IN  /\ row.pnl = (row.exit_price - row.entry_price) * sign * row.qty
           /\ row.pnl_after_cost =
                 row.pnl - (cfg.per_lot_roundtrip * (row.qty \div cfg.lot_size)
                            + cfg.slippage_per_fill)

\* The underlying the leg loop read at the snapshot in which leg k exited.
ExitS(k) ==
    LET j == CHOOSE j \in 1..Len(hist[k]) : hist[k][j][1] = live[k].exit_ts
    IN  hist[k][j][3]

TargetAtExit(k) ==
    _hit_target(live[k].spec.risk.target, live[k].spec.position,
                live[k].entry_px, live[k].entry_S, live[k].exit_px, ExitS(k))

StopAtExit(k) ==
    _hit_stop(live[k].spec.risk.sl, live[k].spec.position,
              live[k].entry_px, live[k].entry_S, live[k].exit_px, ExitS(k))

\* C7: a leg has at most one of hit_target, hit_sl, hit_trail, the flag of
\* its exit_reason; it exits TARGET whenever the target predicate is true at
\* its exit snapshot (also when the stop predicate is true there), SL only
\* when the target predicate is false, TRAIL only when both are false.
C7_TargetStopTrailOrder ==
    \A k \in Legs :
       LET leg == live[k] IN
       /\ ~(leg.hit_target /\ leg.hit_sl)
       /\ ~(leg.hit_target /\ leg.hit_trail)
       /\ ~(leg.hit_sl /\ leg.hit_trail)
       /\ leg.hit_target <=> leg.exit_reason = "TARGET"
       /\ leg.hit_sl <=> leg.exit_reason = "SL"
       /\ leg.hit_trail <=> leg.exit_reason = "TRAIL"
       /\ leg.exit_reason = "TARGET" => TargetAtExit(k)
       /\ leg.exit_reason = "SL" => StopAtExit(k) /\ ~TargetAtExit(k)
       /\ leg.exit_reason = "TRAIL" => ~StopAtExit(k) /\ ~TargetAtExit(k)

\* A leg that exited TARGET at a snapshot where its stop predicate was true.
C7_Witness ==
    \E k \in Legs : live[k].exit_reason = "TARGET" /\ StopAtExit(k)

\* A Sell leg with an enabled premium_pct target and a positive entry premium.
SellPctTarget(leg) ==
    /\ leg.spec.position = "Sell"
    /\ leg.spec.risk.target.enabled
    /\ leg.spec.risk.target.basis = "premium_pct"
    /\ leg.entry_px > 0

\* (E - p)/E >= v/100
TargetReached(leg, p) ==
    (leg.entry_px - p) * 100 >= leg.spec.risk.target.value * leg.entry_px

\* C8: a Sell leg with target {premium_pct, v} that is still open when the
\* leg loop reads a mark p with (E - p)/E >= v/100 exits there with reason
\* TARGET and exit_px = p; and a leg that exited TARGET did so at a mark
\* that reaches the target, no mark read before reaching it.
C8_SellTargetFirstSnapshot ==
    \A k \in Legs :
       LET leg == live[k] IN
       SellPctTarget(leg) =>
          /\ \A j \in 1..Len(hist[k]) :
                TargetReached(leg, hist[k][j][2]) =>
                   /\ leg.exit_ts # None
                   /\ leg.exit_ts <= hist[k][j][1]
                   /\ leg.exit_ts = hist[k][j][1] =>
                         leg.exit_reason = "TARGET" /\ leg.exit_px = hist[k][j][2]
          /\ leg.exit_reason = "TARGET" =>
                /\ TargetReached(leg, leg.exit_px)
                /\ \E j \in 1..Len(hist[k]) :
                      hist[k][j][1] = leg.exit_ts /\ hist[k][j][2] = leg.exit_px
                /\ \A j \in 1..Len(hist[k]) :
                      hist[k][j][1] < leg.exit_ts => ~TargetReached(leg, hist[k][j][2])

\* The scenario of the claim: entry premium 100, target 25 percent, an earlier
\* mark above 75 and the exit at the first mark of 75.
C8_Witness ==
    \E k \in Legs :
       /\ SellPctTarget(live[k])
       /\ live[k].entry_px = 100
       /\ live[k].spec.risk.target.value = 25
       /\ live[k].exit_reason = "TARGET"
       /\ live[k].exit_px = 75
       /\ \E j \in 1..Len(hist[k]) :
             hist[k][j][1] < live[k].exit_ts /\ hist[k][j][2] > 75

\* best_fav_px of every leg is the minimum (Sell) or maximum (Buy) of its
\* entry premium and the marks the leg loop has read for it.
BestIsExtreme ==
    \A k \in Legs :
       live[k].best_fav_px =
          IF live[k].spec.position = "Sell"
          THEN MinOf({live[k].entry_px} \cup MarksRead(k))
          ELSE MaxOf({live[k].entry_px} \cup MarksRead(k))

\* C9: from one step to the next a Sell leg's best_fav_px never increases and
\* a Buy leg's never decreases, and after every step best_fav_px is the
\* extreme of the entry premium and the marks read for the leg.
C9_BestFavMonotonic ==
    [][/\ \A k \in Legs :
             IF live[k].spec.position = "Sell"
             THEN live'[k].best_fav_px <= live[k].best_fav_px
             ELSE live'[k].best_fav_px >= live[k].best_fav_px
       /\ BestIsExtreme']_vars

\* A Sell leg whose marks fell below the entry premium and rose again.
C9_Witness ==
    \E k \in Legs :
       /\ live[k].spec.position = "Sell"
       /\ live[k].best_fav_px < live[k].entry_px
       /\ \E j1, j2 \in 1..Len(hist[k]) :
             /\ j1 < j2
             /\ hist[k][j1][2] = live[k].best_fav_px
             /\ hist[k][j2][2] > live[k].best_fav_px

\* The re-entry rule of leg for an exit with the given reason.
RuleFor(leg, reason) ==
    IF reason = "SL" THEN leg.spec.reentry_on_sl ELSE leg.spec.reentry_on_target

\* The leg-loop step at hand closes live[i] with SL or TARGET and the rule for
\* it spawns immediately, cap and cutoff permitting.
ImmediateReentryDue ==
    /\ pc = "legs"
    /\ i \in Legs
    /\ live[i].exit_ts = None
    /\ live'[i].exit_ts = ts
    /\ live'[i].exit_reason \in {"SL", "TARGET"}
    /\ LET rule == RuleFor(live[i], live'[i].exit_reason) IN
       /\ rule.enabled
       /\ rule.mode \in {"RE_ASAP", "RE_ASAP_REV", "LAZY_LEG"}
       /\ (IF live'[i].exit_reason = "SL" THEN live[i].re_sl_count
                                          ELSE live[i].re_tgt_count)
             < Min2(20, rule.max_count)
    /\ ~(cfg.no_reentry_after # None /\ ts >= cfg.no_reentry_after)

\* C10: the step in which a leg exits with SL or TARGET under an immediate
\* re-entry mode appends one open leg entering at that snapshot, on the strike
\* selected from that snapshot, at that strike's mark, with best_fav_px =
\* entry_px; and the leg loop reads no re-entry leg at its entry snapshot.
C10_ImmediateReentry ==
    [][/\ ImmediateReentryDue =>
             /\ Len(live') = Len(live) + 1
             /\ LET nl == live'[Len(live')] IN
                /\ nl.entry_ts = ts
                /\ nl.exit_ts = None
                /\ nl.strike = select_strike(chain, nl.spec.option_type, under,
                                             StrikeType(nl.spec.strike_type))
                /\ nl.strike \in Quoted(chain, nl.spec.option_type)
                /\ nl.entry_px = Row(chain, nl.spec.option_type, nl.strike)
                /\ nl.best_fav_px = nl.entry_px
       /\ \A k \in 1..Len(live') :
             k > Len(cfg.legs) =>
                \A j \in 1..Len(hist'[k]) : hist'[k][j][1] > live'[k].entry_ts]_vars

\* A leg spawned at its parent's SL exit under RE_ASAP and read by the leg
\* loop for the first time at the next snapshot.
C10_Witness ==
    /\ Len(live) >= 2
    /\ Len(cfg.legs) = 1
    /\ live[1].exit_reason = "SL"
    /\ live[1].spec.reentry_on_sl.mode = "RE_ASAP"
    /\ live[2].entry_ts = live[1].exit_ts
    /\ Len(hist[2]) > 0
    /\ hist[2][1][1] = live[2].entry_ts + 1

\* The leg-loop step at hand closes live[i] with SL or TARGET and the rule for
\* it is enabled with one of the given modes, cap and cutoff permitting.
ReentryDue(modes) ==
    /\ pc = "legs"
    /\ i \in Legs
    /\ live[i].exit_ts = None
    /\ live'[i].exit_ts = ts
    /\ live'[i].exit_reason \in {"SL", "TARGET"}
    /\ LET rule == RuleFor(live[i], live'[i].exit_reason) IN
       /\ rule.enabled
       /\ rule.mode \in modes
       /\ (IF live'[i].exit_reason = "SL" THEN live[i].re_sl_count
                                          ELSE live[i].re_tgt_count)
             < Min2(20, rule.max_count)
    /\ ~(cfg.no_reentry_after # None /\ ts >= cfg.no_reentry_after)

\* The legs appended by the step at hand.
NewLegs == (Len(live) + 1)..Len(live')

\* pen is in the list before the step at hand and not after it.
Resolved(pen) ==
    /\ \E j \in 1..Len(pending) : pending[j] = pen
    /\ \A j \in 1..Len(pending') : pending'[j] # pen

\* The mark of the contract pen watches, at the snapshot at hand, is on the
\* side of the watch price the position of pen's spec asks for.
CostDue(pen) ==
    LET m == chain[<<pen.spec.option_type, pen.watch_strike>>] IN
    /\ m # None
    /\ \/ pen.spec.position = "Buy" /\ m >= pen.watch_price
       \/ pen.spec.position = "Sell" /\ m <= pen.watch_price

\* C11: an exit under RE_COST / RE_COST_REV queues one PendingReEntry watching
\* the exited leg's strike and entry premium; the pending evaluation of every
\* snapshot from the exit snapshot on spawns, for a queued entry whose watched
\* mark is >= the watch price (Buy) or <= it (Sell), one open leg on the
\* watched strike at that mark, and leaves every other such entry queued
\* without spawning a leg.
C11_CostReentry ==
    [][/\ ReentryDue({"RE_COST", "RE_COST_REV"}) =>
             /\ Len(pending') = Len(pending) + 1
             /\ Len(live') = Len(live)
             /\ LET pen == pending'[Len(pending')] IN
                /\ pen.parent_leg_id = i
                /\ pen.created_ts = ts
                /\ pen.watch_strike = live[i].strike
                /\ pen.watch_price = live[i].entry_px
                /\ pen.spec.option_type = live[i].spec.option_type
       /\ (pc = "pending" /\ pc' # "failed") =>
             \A j \in 1..Len(pending) :
                LET pen == pending[j] IN
                pen.mode \in {"RE_COST", "RE_COST_REV"} =>
                   IF CostDue(pen)
                   THEN /\ Resolved(pen)
                        /\ \E k \in NewLegs :
                              /\ live'[k].spec = pen.spec
                              /\ live'[k].strike = pen.watch_strike
                              /\ live'[k].entry_ts = ts
                              /\ live'[k].exit_ts = None
                              /\ live'[k].entry_px =
                                    chain[<<pen.spec.option_type, pen.watch_strike>>]
                   ELSE /\ \E q \in 1..Len(pending') : pending'[q] = pen
                        /\ \A k \in NewLegs : live'[k].spec # pen.spec
       /\ (pc = "pending" /\ pc' # "failed") =>
             Len(live') - Len(live) = Len(pending) - Len(pending')
       /\ pc = "squareoff" =>
             \A j \in 1..Len(pending) :
                /\ pending[j].created_ts <= ts
                /\ pending[j].mode \in {"RE_COST", "RE_COST_REV"} =>
                      ~CostDue(pending[j])]_vars

\* A RE_COST entry queued at a Sell leg's SL exit stayed queued through the
\* exit snapshot and spawned a Sell leg on the watched strike at a later one.
C11_Witness ==
    /\ Len(live) >= 2
    /\ Len(cfg.legs) = 1
    /\ live[1].exit_reason = "SL"
    /\ live[1].spec.reentry_on_sl.mode = "RE_COST"
    /\ live[2].spec.position = "Sell"
    /\ live[2].strike = live[1].strike
    /\ live[2].entry_ts > live[1].exit_ts
    /\ live[2].entry_px <= live[1].entry_px
    /\ pending = <<>>

\* C12: an exit under RE_MOMENTUM / RE_MOMENTUM_REV queues one PendingReEntry
\* whose watch price is the mark, at that snapshot, of the contract selected
\* afresh for the re-entry spec; the entry stays queued through the snapshot
\* it was queued at, and the pending evaluation of a later snapshot resolves
\* it only when the mark of the selected contract is at least the configured
\* points away from the watch price.
C12_MomentumReentry ==
    [][/\ ReentryDue({"RE_MOMENTUM", "RE_MOMENTUM_REV"}) =>
             /\ Len(pending') = Len(pending) + 1
             /\ LET pen == pending'[Len(pending')]
                    k   == select_strike(chain, pen.spec.option_type, under,
                                         StrikeType(pen.spec.strike_type))
                IN  /\ k \in Quoted(chain, pen.spec.option_type)
                    /\ pen.watch_price = chain[<<pen.spec.option_type, k>>]
       /\ (pc = "pending" /\ pc' # "failed") =>
             \A j \in 1..Len(pending) :
                LET pen == pending[j]
                    k   == select_strike(chain, pen.spec.option_type, under,
                                         StrikeType(pen.spec.strike_type))
                IN  (pen.mode \in {"RE_MOMENTUM", "RE_MOMENTUM_REV"}
                       /\ Resolved(pen)) =>
                       /\ pen.created_ts < ts
                       /\ Abs(chain[<<pen.spec.option_type, k>>] - pen.watch_price)
                             >= cfg.momentum_pts]_vars

\* The position a re-entry from a leg of position pos takes under mode.
ReentryPosition(pos, mode) ==
    IF mode \in {"RE_ASAP_REV", "RE_COST_REV", "RE_MOMENTUM_REV"}
    THEN (IF pos = "Buy" THEN "Sell" ELSE "Buy")
    ELSE pos

\* C13: a leg spawned immediately from the exited leg's spec, and a
\* PendingReEntry queued from it, has the opposite position when the rule's
\* mode ends in _REV and the same position otherwise; a leg spawned by the
\* pending evaluation has the spec of an entry resolved in that step.
C13_ReversedPosition ==
    [][/\ (ReentryDue({"RE_ASAP", "RE_ASAP_REV"}) /\ Len(live') > Len(live)) =>
             live'[Len(live')].spec.position =
                ReentryPosition(live[i].spec.position,
                                RuleFor(live[i], live'[i].exit_reason).mode)
       /\ ReentryDue({"RE_COST", "RE_COST_REV", "RE_MOMENTUM", "RE_MOMENTUM_REV"}) =>
             /\ Len(pending') = Len(pending) + 1
             /\ pending'[Len(pending')].parent_leg_id = i
             /\ pending'[Len(pending')].mode =
                   RuleFor(live[i], live'[i].exit_reason).mode
       /\ \A j \in 1..Len(pending) :
             pending[j].spec.position =
                ReentryPosition(live[pending[j].parent_leg_id].spec.position,
                                pending[j].mode)
       /\ pc = "pending" =>
             \A k \in NewLegs :
                \E j \in 1..Len(pending) :
                   Resolved(pending[j]) /\ live'[k].spec = pending[j].spec]_vars

\* A Sell leg hit its target under RE_ASAP_REV and was followed by a Buy leg,
\* which hit its stop under RE_ASAP and was followed by another Buy leg.
C13_Witness ==
    /\ Len(live) >= 3
    /\ Len(cfg.legs) = 1
    /\ live[1].exit_reason = "TARGET"
    /\ live[1].spec.reentry_on_target.mode = "RE_ASAP_REV"
    /\ live[1].spec.position = "Sell"
    /\ live[2].spec.position = "Buy"
    /\ live[2].exit_reason = "SL"
    /\ live[2].spec.reentry_on_sl.mode = "RE_ASAP"
    /\ live[3].spec.position = "Buy"

\* The leg-loop step at hand closes live[i] with SL or TARGET and the rule for
\* that trigger is disabled, has max_count <= 0, or the leg's counter for the
\* trigger is at min(20, max_count).
BlockedExit ==
    /\ pc = "legs"
    /\ i \in Legs
    /\ live[i].exit_ts = None
    /\ live'[i].exit_ts = ts
    /\ live'[i].exit_reason \in {"SL", "TARGET"}
    /\ LET rule == RuleFor(live[i], live'[i].exit_reason) IN
       \/ ~rule.enabled
       \/ rule.max_count <= 0
       \/ (IF live'[i].exit_reason = "SL" THEN live[i].re_sl_count
                                          ELSE live[i].re_tgt_count)
             = Min2(20, rule.max_count)

\* The step at hand adds no leg, queues no PendingReEntry and leaves the
\* re-entry counters of every leg as they were.
NoReentryAction ==
    /\ Len(live') = Len(live)
    /\ pending' = pending
    /\ \A k \in Legs :
          /\ live'[k].re_sl_count = live[k].re_sl_count
          /\ live'[k].re_tgt_count = live[k].re_tgt_count

\* C14: an SL or TARGET exit whose rule is disabled, has max_count <= 0 or
\* whose counter is at min(20, max_count) adds no leg, queues no
\* PendingReEntry and changes no re-entry counter.
C14_GuardedExitNoAction ==
    [][BlockedExit => NoReentryAction]_vars

\* A leg left with SL under a disabled rule of max_count 3 and the session
\* ended with the legs it started with and nothing queued.
C14_Witness ==
    \E k \in Legs :
       /\ live[k].exit_reason = "SL"
       /\ ~live[k].spec.reentry_on_sl.enabled
       /\ live[k].spec.reentry_on_sl.max_count = 3
       /\ Len(live) = Len(cfg.legs)
       /\ pending = <<>>
       /\ pc = "done"

\* C15: with no_reentry_after configured, an SL or TARGET exit at a snapshot
\* at or after the cutoff adds no leg, queues no PendingReEntry and changes
\* no re-entry counter.
C15_NoReentryAfterCutoff ==
    [][(/\ pc = "legs"
        /\ i \in Legs
        /\ live[i].exit_ts = None
        /\ live'[i].exit_ts = ts
        /\ live'[i].exit_reason \in {"SL", "TARGET"}
        /\ cfg.no_reentry_after # None
        /\ ts >= cfg.no_reentry_after) => NoReentryAction]_vars

\* A leg left with SL at the cutoff snapshot itself under an enabled RE_ASAP
\* rule of max_count 1, and the session ended with that one leg.
C15_Witness ==
    /\ cfg.no_reentry_after # None
    /\ Len(live) = 1
    /\ live[1].exit_ts = cfg.no_reentry_after
    /\ live[1].exit_reason = "SL"
    /\ live[1].spec.reentry_on_sl = ReEntryRule(TRUE, "RE_ASAP", 1, "None")
    /\ live[1].re_sl_count = 0
    /\ pending = <<>>
    /\ pc = "done"

\* C16: the pending evaluation of a snapshot either keeps a queued entry, in
\* order, or removes it and spawns exactly one leg with its spec; entries
\* are queued only by the leg loop and removed only by the pending
\* evaluation, so an entry left at the end of the snapshot loop spawns
\* nothing afterwards, and the session emits one row per leg and none else.
C16_PendingLifecycle ==
    [][/\ (pc = "pending" /\ pc' # "failed") =>
             /\ Len(live') - Len(live) = Len(pending) - Len(pending')
             /\ \A q \in 1..Len(pending') :
                   \E j \in 1..Len(pending) : pending'[q] = pending[j]
             /\ \A q1, q2 \in 1..Len(pending') :
                   q1 < q2 =>
                      \E j1, j2 \in 1..Len(pending) :
                         /\ j1 < j2
                         /\ pending'[q1] = pending[j1]
                         /\ pending'[q2] = pending[j2]
             /\ \A k \in NewLegs :
                   \E j \in 1..Len(pending) :
                      Resolved(pending[j]) /\ live'[k].spec = pending[j].spec
       /\ pc = "legs" =>
             /\ Len(pending') >= Len(pending)
             /\ \A j \in 1..Len(pending) : pending'[j] = pending[j]
       /\ pc \in {"entry", "squareoff", "final", "emit"} =>
             /\ pending' = pending
             /\ pc # "entry" => Len(live') = Len(live)
       /\ \A j1, j2 \in 1..Len(pending) :
             j1 # j2 => pending[j1].parent_leg_id # pending[j2].parent_leg_id
       /\ pc' = "done" =>
             /\ Len(rows') = Len(live')
             /\ \A r \in 1..Len(rows') : rows'[r].leg_id = r]_vars

\* Both legs of a strategy queued a re-entry; one entry resolved into a third
\* leg, the other was still queued when the session ended with three rows.
C16_Witness ==
    /\ pc = "done"
    /\ Len(cfg.legs) = 2
    /\ Len(live) = 3
    /\ Len(pending) = 1
    /\ Len(rows) = 3
    /\ live[3].entry_ts > live[pending[1].parent_leg_id].exit_ts

\* C17: when a Complete strategy has a leg closed by SL or TARGET after the
\* pending evaluation of snapshot t, every open leg with a row at t is closed
\* at t at its own mark with exit_reason TIME, every other leg is left as it
\* is, and the snapshot loop ends: from then on ts stays t, no leg is added
\* and the pending list is not touched.
C17_CompleteSquareOff ==
    [][/\ (/\ pc = "squareoff"
           /\ cfg.square_off_mode = "Complete"
           /\ \E k \in Legs : live[k].exit_reason \in {"SL", "TARGET"}) =>
             /\ pc' = "final"
             /\ ts' = ts
             /\ Len(live') = Len(live)
             /\ \A k \in Legs :
                   IF live[k].exit_ts = None
                      /\ chain[<<live[k].spec.option_type, live[k].strike>>] # None
                   THEN /\ live'[k].exit_ts = ts
                        /\ live'[k].exit_px =
                              chain[<<live[k].spec.option_type, live[k].strike>>]
                        /\ live'[k].exit_reason = "TIME"
                   ELSE live'[k] = live[k]
       /\ pc \in {"final", "emit", "done", "failed"} =>
             /\ ts' = ts
             /\ Len(live') = Len(live)
             /\ pending' = pending
             /\ pc' \in {"emit", "done", "failed"}]_vars

\* A Complete square-off before the last snapshot: one leg left with SL at t
\* and the other has just been closed at t, at its mark, with reason TIME.
C17_Witness ==
    /\ pc = "final"
    /\ cfg.square_off_mode = "Complete"
    /\ ts < LastTs
    /\ \E k1, k2 \in Legs :
          /\ live[k1].exit_reason = "SL"
          /\ live[k1].exit_ts = ts
          /\ live[k2].exit_reason = "TIME"
          /\ live[k2].exit_ts = ts
          /\ live[k2].exit_px = chain[<<live[k2].spec.option_type, live[k2].strike>>]

\* C18: through the leg loop, the pending evaluation and the square-off test
\* of a snapshot that has no row for an open leg's contract, the leg's
\* record (pnl, best_fav_px, exit fields, counters) stays as it was, no exit
\* predicate reads a mark for it, and the leg's iteration of the loop ends
\* without an error and without spawning or queueing anything.
C18_MissingRowNoOp ==
    [][/\ pc \in {"legs", "pending", "squareoff"} =>
             \A k \in Legs :
                (/\ live[k].exit_ts = None
                 /\ chain[<<live[k].spec.option_type, live[k].strike>>] = None) =>
                   /\ live'[k] = live[k]
                   /\ hist'[k] = hist[k]
       /\ (/\ pc = "legs"
           /\ i \in Legs
           /\ live[i].exit_ts = None
           /\ chain[<<live[i].spec.option_type, live[i].strike>>] = None) =>
             /\ pc' # "failed"
             /\ i' = i + 1
             /\ live' = live
             /\ pending' = pending]_vars

\* The leg loop of a snapshot after the entry snapshot has passed an open leg
\* whose contract has no row: nothing was read for the leg at that snapshot.
C18_Witness ==
    /\ pc = "pending"
    /\ ts > 0
    /\ \E k \in Legs :
          /\ live[k].exit_ts = None
          /\ live[k].entry_ts < ts
          /\ chain[<<live[k].spec.option_type, live[k].strike>>] = None
          /\ \A j \in 1..Len(hist[k]) : hist[k][j][1] < ts
          /\ Len(hist[k]) > 0

\* C19: the final force-close gives an open leg whose strike has no row at
\* the exit snapshot, while other strikes of its option type have one, an
\* exit_ts and the mark of a quoted strike nearest to its own as exit_px.
C19_ExitNearestStrike ==
    [][pc = "final" =>
          \A k \in Legs :
             LET ot == live[k].spec.option_type IN
             (/\ live[k].exit_ts = None
              /\ chain'[<<ot, live[k].strike>>] = None
              /\ Quoted(chain', ot) # {}) =>
                /\ live'[k].exit_ts = LastTs
                /\ \E K \in Quoted(chain', ot) :
                      /\ \A K2 \in Quoted(chain', ot) :
                            Abs(K - live[k].strike) <= Abs(K2 - live[k].strike)
                      /\ live'[k].exit_px = chain'[<<ot, K>>]]_vars

\* C20: a re-entry attempt whose strike selection raises, because the
\* snapshot has no row of the spec's option type, is skipped and the session
\* goes on: neither the leg loop nor the pending evaluation ends the session.
C20_SelectionErrorSkipped ==
    [][(/\ pc \in {"legs", "pending"}
        /\ \/ \E j \in 1..Len(pending) :
                Quoted(chain, pending[j].spec.option_type) = {}
           \/ \E k \in Legs : Quoted(chain, live[k].spec.option_type) = {})
          => pc' # "failed"]_vars

\* C21: a session that ended with an error has added no row to the
\* accumulated row list.
C21_FailedSessionNoRows ==
    pc = "failed" => rows = <<>>

\* C22: with a rule that is disabled or missing, hit_target, hit_stop and
\* trail_stop of risk.py and of engine.py return False for every position,
\* basis, value, entry and mark price, best_fav_px unset included.
C22_DisabledRuleNeverHits ==
    (/\ ret # <<>>
     /\ \/ args.rule = NoRule
        \/ (args.rule # NoRule /\ ~args.rule.enabled))
       => ret.value = "False"

\* trail_stop of risk.py returned for a disabled percent rule, with
\* best_fav_px unset and a mark the enabled rule would answer True for.
C22_Witness ==
    /\ ret # <<>>
    /\ ret.fn = "trail_stop"
    /\ args.rule = RiskRule(FALSE, "percent", 0)
    /\ args.best_fav_px = None
    /\ args.position = "Sell"

\* The move of the underlying in the direction favourable to the leg: down
\* for a Short CE and a Long PE, up for a Short PE and a Long CE.
FavourableMove ==
    IF (args.position = "Sell" /\ args.option_type = "CE")
       \/ (args.position = "Buy" /\ args.option_type = "PE")
    THEN args.entry_S - args.S
    ELSE args.S - args.entry_S

\* move is at least the rule's value, in points or in percent of entry_S.
ReachedBy(move) ==
    IF args.rule.basis = "underlying_pts"
    THEN move >= args.rule.value
    ELSE move * 100 >= args.rule.value * args.entry_S

\* C23: with an enabled rule of basis underlying_pts or underlying_pct, the
\* target predicates return True exactly when the underlying has moved by at
\* least the rule's value in the direction favourable to the leg's position
\* and option type, and the stop predicates exactly when it has moved so in
\* the opposite direction.
C23_UnderlyingDirection ==
    (/\ ret # <<>>
     /\ args.rule # NoRule
     /\ args.rule.enabled
     /\ args.rule.basis \in {"underlying_pts", "underlying_pct"}) =>
       /\ ret.fn \in {"hit_target", "_hit_target"} =>
             (ret.value = "True" <=> ReachedBy(FavourableMove))
       /\ ret.fn \in {"hit_stop", "_hit_stop"} =>
             (ret.value = "True" <=> ReachedBy(-FavourableMove))

\* The mode strings of the configured re-entry rules outside REENTRY_MODES.
UnknownModes ==
    {RuleFor([spec |-> cfg.legs[k]], r).mode :
        k \in 1..Len(cfg.legs), r \in {"SL", "TARGET"}} \ REENTRY_MODES

\* C25: an exit whose enabled rule has a mode outside the seven known modes
\* queues one PendingReEntry with that mode and counts it against the leg's
\* counter without spawning a leg; a queued entry with such a mode stays in
\* the pending list over every step of the session, and the pending
\* evaluation spawns no more legs than there are entries of known modes.
C25_UnknownModeStaysPending ==
    [][/\ ReentryDue(UnknownModes) =>
             /\ Len(live') = Len(live)
             /\ Len(pending') = Len(pending) + 1
             /\ pending'[Len(pending')].mode
                    = RuleFor(live[i], live'[i].exit_reason).mode
             /\ pending'[Len(pending')].parent_leg_id = live[i].leg_id
             /\ live'[i].re_sl_count + live'[i].re_tgt_count
                    = live[i].re_sl_count + live[i].re_tgt_count + 1
       /\ \A j \in 1..Len(pending) :
             pending[j].mode \notin REENTRY_MODES =>
                \E m \in 1..Len(pending') : pending'[m] = pending[j]
       /\ pc = "pending" =>
             Len(live') - Len(live)
                <= Cardinality({j \in 1..Len(pending) :
                                   pending[j].mode \in REENTRY_MODES})
      ]_vars

\* C24: running a session never modifies the StrategyConfig or any LegSpec of
\* its legs list: no step of the session changes cfg, a re-entry that
\* reverses the position or substitutes a lazy leg acts on a copy.
C24_ConfigNeverModified == [][cfg' = cfg]_vars

\* A reversed re-entry leg is live beside the configured leg it was copied
\* from: it holds the opposite position, and the configured leg still holds
\* the LegSpec of cfg.
C24_Witness ==
    \E k \in 1..Len(live) :
        /\ live[k].leg_id > Len(cfg.legs)
        /\ live[1].re_sl_count + live[1].re_tgt_count > 0
        /\ live[k].spec.position = _reverse_position(cfg.legs[1].position)
        /\ live[1].spec = cfg.legs[1]

\* A call of select_strike in the given mode has returned, the chain having
\* rows of the requested option type.
Selected(mode) ==
    /\ ret # <<>>
    /\ ret.fn = "select_strike"
    /\ args.criteria.mode = mode
    /\ Quoted(args.chain, args.option_type) # {}

\* The multiples of step nearest to the price x.
NearestMultiples(x, step) ==
    LET Ms == {m * step : m \in ((x \div step) - 1)..((x \div step) + 1)}
    IN  {b \in Ms : \A b2 \in Ms : Abs(b - x) <= Abs(b2 - x)}

\* Steps out of the money asked for by a strike type (negative: into it).
StepsOut(stype) ==
    CASE stype = "ATM" -> 0 [] stype = "OTM1" -> 1 [] stype = "OTM2" -> 2
      [] stype = "ITM1" -> -1

\* C26: in STRIKE_TYPE mode, with step the detected step of the chain's
\* strikes and base a multiple of step nearest to the underlying price, the
\* strike returned is base moved n steps up (OTM on a CE, ITM on a PE) or
\* down (OTM on a PE, ITM on a CE) when the chain has that strike, and a
\* chain strike nearest to it otherwise; with strikes 50 apart and the
\* underlying at 24975, OTM1 on a CE gives 25050.
C26_StrikeTypeSelection ==
    Selected("STRIKE_TYPE") =>
        LET Ks   == Quoted(args.chain, args.option_type)
            step == _detect_step(Ks)
            out  == StepsOut(args.criteria.params.strike_type)
            up   == IF args.option_type = "CE" THEN out ELSE -out
        IN  /\ \E base \in NearestMultiples(args.atm_price, step) :
                  LET want == base + up * step IN
                  /\ want \in Ks => ret.value = want
                  /\ ret.value \in Ks
                  /\ \A k \in Ks : Abs(ret.value - want) <= Abs(k - want)
            /\ (/\ Ks = StrikeGrid
                /\ args.atm_price = 24975
                /\ args.option_type = "CE"
                /\ args.criteria.params.strike_type = "OTM1")
               => ret.value = 25050

\* The example of the claim has been computed.
C26_Witness ==
    /\ Selected("STRIKE_TYPE")
    /\ Quoted(args.chain, args.option_type) = StrikeGrid
    /\ args.atm_price = 24975
    /\ args.option_type = "CE"
    /\ args.criteria.params.strike_type = "OTM1"
    /\ ret.value = 25050

\* C27: in every selection mode select_strike raises, and returns no strike,
\* when the chain has no row of the requested option type.
C27_EmptyChainRaises ==
    (/\ ret # <<>>
     /\ ret.fn = "select_strike"
     /\ Quoted(args.chain, args.option_type) = {})
    => ret.value = None

\* A premium-mode selection on a chain that has rows of the other option
\* type only has raised.
C27_Witness ==
    /\ ret # <<>>
    /\ args.criteria.mode = "PREMIUM_GE"
    /\ args.option_type = "PE"
    /\ Quoted(args.chain, "PE") = {}
    /\ Quoted(args.chain, "CE") # {}
    /\ ret.value = None

\* C28: PREMIUM_LE returns a strike of the option type whose premium is the
\* highest of the premiums <= limit, PREMIUM_GE one whose premium is the
\* lowest of the premiums >= limit; when no premium meets the bound,
\* PREMIUM_LE returns a strike of the smallest premium and PREMIUM_GE one of
\* the largest.
C28_PremiumBounds ==
    LET Ks   == Quoted(args.chain, args.option_type)
        P(k) == args.chain[<<args.option_type, k>>]
        lim  == args.criteria.params.value
    IN  /\ Selected("PREMIUM_LE") =>
              /\ ret.value \in Ks
              /\ IF \E k \in Ks : P(k) <= lim
                 THEN /\ P(ret.value) <= lim
                      /\ \A k \in Ks : P(k) <= lim => P(k) <= P(ret.value)
                 ELSE \A k \in Ks : P(ret.value) <= P(k)
        /\ Selected("PREMIUM_GE") =>
              /\ ret.value \in Ks
              /\ IF \E k \in Ks : P(k) >= lim
                 THEN /\ P(ret.value) >= lim
                      /\ \A k \in Ks : P(k) >= lim => P(k) >= P(ret.value)
                 ELSE \A k \in Ks : P(ret.value) >= P(k)

\* PREMIUM_LE chose the higher of two premiums under the limit.
C28_Witness ==
    /\ Selected("PREMIUM_LE")
    /\ args.criteria.params.value = 125
    /\ \E k \in Quoted(args.chain, args.option_type) :
          args.chain[<<args.option_type, k>>] = 50
    /\ args.chain[<<args.option_type, ret.value>>] = 100

\* _equity_and_drawdown has returned for the series args.pnls.
Reported == ret # <<>> /\ ret.fn = "_equity_and_drawdown"

RECURSIVE SumFirst(_, _)
SumFirst(s, k) == IF k = 0 THEN 0 ELSE SumFirst(s, k - 1) + s[k]

\* C29: for every series of trade PnLs the equity at a trade is the sum of
\* the PnLs up to it, the drawdown there is the equity minus the highest
\* equity up to it and is never positive, and max_drawdown is the minimum of
\* the drawdown series, 0 for an empty series.
C29_EquityAndDrawdown ==
    Reported =>
        LET r  == ret.value
            len == Len(args.pnls)
        IN  /\ Len(r.eq) = len /\ Len(r.dd) = len
            /\ \A k \in 1..len :
                  /\ r.eq[k] = SumFirst(args.pnls, k)
                  /\ r.dd[k] = r.eq[k] - MaxOf({r.eq[m] : m \in 1..k})
                  /\ r.dd[k] <= 0
                  /\ r.max_dd <= r.dd[k]
            /\ len > 0 => \E k \in 1..len : r.max_dd = r.dd[k]
            /\ len = 0 => r.max_dd = 0

\* A series that falls below its peak and recovers part of the fall.
C29_Witness ==
    /\ Reported
    /\ Len(args.pnls) = MaxTrades
    /\ ret.value.max_dd < 0
    /\ ret.value.dd[MaxTrades] > ret.value.max_dd
    /\ ret.value.dd[MaxTrades] < 0

\* The series of the scenario.
ScenarioSeries == <<10, -5, 8, -20, 12>>

\* C30, as stated: for the series [10, -5, 8, -20, 12] max_drawdown is -25,
\* the running peak being 18 at index 2 and the equity -7 at index 3.
C30_ScenarioDrawdown ==
    (Reported /\ args.pnls = ScenarioSeries) =>
        /\ ret.value.max_dd = -25
        /\ ret.value.eq[3] - ret.value.dd[3] = 18
        /\ ret.value.eq[4] = -7

\* C30, amended: for the series [10, -5, 8, -20, 12] max_drawdown is -20,
\* the running peak being 13 at index 2 and the equity -7 at index 3.
C30_ScenarioDrawdownAmended ==
    (Reported /\ args.pnls = ScenarioSeries) =>
        /\ ret.value.max_dd = -20
        /\ ret.value.eq[3] - ret.value.dd[3] = 13
        /\ ret.value.eq[4] = -7
        /\ ret.value.start_idx = 2

\* The scenario has been computed.
C30_Witness ==
    /\ Reported
    /\ args.pnls = ScenarioSeries
    /\ ret.value.dd[4] = ret.value.max_dd

\* The 0-based index of the trough: the first trade whose drawdown is
\* max_dd.
Trough == IdxMin(ret.value.dd, Len(ret.value.dd))

\* C31: for a series with a non-zero max drawdown and its trough at index e,
\* the recovery index is the first index after e whose drawdown is exactly
\* 0, or the last index when there is none; the duration is recovery index
\* - start index + 1, and the start index is at or before e and holds the
\* highest equity up to e.
C31_RecoveryAndDuration ==
    (Reported /\ ret.value.max_dd # 0) =>
        LET r    == ret.value
            len  == Len(r.dd)
            e    == Trough
            back == {k \in 0..(len - 1) : k > e /\ r.dd[k + 1] = 0}
        IN  /\ r.dd[e + 1] = r.max_dd
            /\ IF back = {} THEN r.rec_idx = len - 1
               ELSE r.rec_idx \in back /\ \A k \in back : r.rec_idx <= k
            /\ r.duration = r.rec_idx - r.start_idx + 1
            /\ r.start_idx \in 0..e
            /\ \A k \in 0..e : r.eq[k + 1] <= r.eq[r.start_idx + 1]

\* A drawdown that recovers before the end of the series, two or more trades
\* after its trough.
C31_Witness ==
    /\ Reported
    /\ ret.value.max_dd < 0
    /\ ret.value.rec_idx < Len(args.pnls) - 1
    /\ ret.value.rec_idx > Trough + 1

\* The length of the longest run of TRUE entries of a boolean series.
LongestRun(flags) ==
    LET Runs == {ab \in (1..Len(flags)) \X (1..Len(flags)) :
                    ab[1] <= ab[2] /\ \A k \in ab[1]..ab[2] : flags[k]}
    IN  MaxOf({0} \cup {ab[2] - ab[1] + 1 : ab \in Runs})

\* C32: for every trade series max_win_streak is the length of the longest
\* run of consecutive trades with trade_pnl > 0 and max_losing_streak the
\* length of the longest run of consecutive trades with trade_pnl < 0.
C32_Streaks ==
    (ret # <<>> /\ ret.fn = "_streaks") =>
        /\ ret.value.max_win
              = LongestRun([k \in 1..Len(args.pnls) |-> args.pnls[k] > 0])
        /\ ret.value.max_loss
              = LongestRun([k \in 1..Len(args.pnls) |-> args.pnls[k] < 0])

\* C33: implied volatility inverts the price: iv_from_price applied to
\* bs_price(S, K, T, r, q, sigma, right), sigma in (0.05, 3.0) and T > 1/365,
\* returns a value within 1e-4 of sigma (1e-4 is IvGrid / 50000 grid
\* positions, hi - lo being 5).
C33_IvRoundTrip ==
    (ret # <<>> /\ ret.fn = "iv_from_price") =>
        Abs(ret.value - args.sigma) <= IvGrid \div 50000

\* The re-entries of the session so far by trigger: every immediate spawn
\* adds one to the counter of the leg whose exit triggered it.
RECURSIVE Reentries(_, _)
Reentries(reason, k) ==
    IF k = 0 THEN 0
    ELSE Reentries(reason, k - 1)
         + (IF reason = "SL" THEN live[k].re_sl_count
                             ELSE live[k].re_tgt_count)

\* Both re-entry rules of the leg spawn at the exit itself.
ImmediateRules(ls) ==
    \A rule \in {ls.reentry_on_sl, ls.reentry_on_target} :
        IsAsap(rule.mode) \/ rule.mode = "LAZY_LEG"

\* C34: in a session the legs created by SL-triggered re-entry that descend
\* from one configured leg, re-entries of re-entry legs included, number at
\* most min(20, reentry_on_sl.max_count), and likewise for TARGET. Stated
\* for the sessions of one configured leg whose rules spawn immediately:
\* there every re-entry leg descends from that leg and every counted
\* re-entry is a leg created.
C34_ReentryChainCapped ==
    (Len(cfg.legs) = 1 /\ ImmediateRules(cfg.legs[1])) =>
        /\ Reentries("SL", Len(live))
              <= Min2(20, Max2(0, cfg.legs[1].reentry_on_sl.max_count))
        /\ Reentries("TARGET", Len(live))
              <= Min2(20, Max2(0, cfg.legs[1].reentry_on_target.max_count))

\* C35: with no_reentry_after configured, no leg created by re-entry,
\* spawned at an exit or by the resolution of a queued PendingReEntry, has
\* its entry_ts at or after the cutoff.
C35_NoReentryLegAfterCutoff ==
    cfg.no_reentry_after # None =>
        \A k \in 1..Len(live) :
            live[k].leg_id > Len(cfg.legs) =>
                live[k].entry_ts < cfg.no_reentry_after

\* C36: within a session the list of legs only grows and keeps the legs it
\* has, the k-th leg created (initial or re-entry) has leg_id k, so leg ids
\* are pairwise distinct and no two rows of the session carry the same
\* leg_id.
C36_LegIdsDistinct ==
    [][/\ Len(live') >= Len(live)
       /\ \A k \in 1..Len(live) : live'[k].leg_id = live[k].leg_id
       /\ \A k \in 1..Len(live') : live'[k].leg_id = k
       /\ \A a, b \in 1..Len(rows') :
             rows'[a].leg_id = rows'[b].leg_id => a = b]_vars

\* Two re-entry legs, created by the resolution of queued entries, beside
\* two configured legs, and a row emitted for each of the four.
C36_Witness ==
    /\ Len(cfg.legs) = 2
    /\ Len(live) = 4
    /\ Len(rows) = 4

\* C37: for every session date and every expiry keyword (Weekly,
\* NextWeekly, Monthly, NextMonthly, or an unknown keyword treated as
\* Weekly) resolve_expiry_keyword returns a date on or after the session
\* date.
C37_ExpiryNotBeforeSession ==
    (ret # <<>> /\ ret.fn = "resolve_expiry_keyword") =>
        ret.value >= args.date

\* C38: whenever select_strike returns a value, in any selection mode, that
\* value is the strike of a row of the given chain with the requested option
\* type; it is never a computed target strike that the chain does not list.
C38_ReturnsListedStrike ==
    (ret # <<>> /\ ret.fn = "select_strike"
        /\ ret.value \notin {None, Unsupported}) =>
        ret.value \in Quoted(args.chain, args.option_type)

\* A straddle-width selection whose target, 25250, the chain does not list
\* has returned the listed strike nearest to it.
C38_Witness ==
    /\ ret # <<>>
    /\ ret.fn = "select_strike"
    /\ args.criteria.mode = "STRADDLE_WIDTH"
    /\ args.criteria.params.sign = "+"
    /\ args.atm_price = 25030
    /\ Quoted(args.chain, "CE") = StrikeGrid
    /\ Quoted(args.chain, "PE") = StrikeGrid
    /\ args.chain[<<"CE", 25050>>] = 100
    /\ args.chain[<<"PE", 25050>>] = 100
    /\ ret.value = 25050

\* The number of rows of the detail CSV equal to row.
TimesInCsv(row) ==
    Cardinality({r \in 1..Len(out_csv) : out_csv[r] = row})

\* C39: after any sequence of run_day and flush calls on one Backtester,
\* once flush has run each leg row produced by run_day is exactly once in
\* the detail CSV and counted once in the metrics, and a flush that follows
\* a flush changes neither the CSV nor the metrics.
C39_FlushWritesEachRowOnce ==
    [][(ret # <<>> /\ ret.fn = "flush") =>
          /\ \A r \in 1..Len(rows) : TimesInCsv(rows[r]) = 1
          /\ ret.value.overall_profit = SumFirst(
                 [r \in 1..Len(rows) |-> rows[r].pnl_after_cost], Len(rows))
          /\ (Flush => out_csv' = out_csv /\ ret' = ret)]_vars

\* C40: the start index reported for the max-drawdown span is the peak from
\* which that drawdown began: every trade strictly between the start index
\* and the trough has a drawdown below 0, also when equity reached the same
\* peak value more than once before the trough.
C40_StartIsLastPeak ==
    (Reported /\ ret.value.max_dd # 0) =>
        \A k \in 0..(Len(ret.value.dd) - 1) :
            (ret.value.start_idx < k /\ k < Trough) => ret.value.dd[k + 1] < 0

====
